---- MODULE Spec2Model ----
(***************************************************************************)
(* A model of the nefele time-series library: the differencing transforms, *)
(* the autocorrelation engine, the AR / MA / ARMA / ARIMA estimators and   *)
(* the order selectors of its model facades.                               *)
(*                                                                         *)
(* Numbers.  An f64 is modelled exactly, without rounding, as a fraction   *)
(* <<n, d>> in lowest terms with d > 0; the IEEE specials are the          *)
(* fractions with d = 0: <<1, 0>> is +inf, <<-1, 0>> is -inf and <<0, 0>>  *)
(* is NaN.  The sign of zero is not modelled.                              *)
(***************************************************************************)
EXTENDS Integers, Sequences, FiniteSets, TLC

VARIABLES
  data,        \* the series the caller holds
  checked,     \* whether the build panics on integer overflow (debug profile)
  lbfgs_step,  \* what the L-BFGS minimiser does to its start vector, per dimension
  lbfgs_err,   \* whether the L-BFGS minimiser returns Err (no convergence)
  model,       \* the facade object
  calls,       \* how many fit and autofit calls the object has served
  last         \* the last call made, its arguments and how it ended

vars == <<data, checked, lbfgs_step, lbfgs_err, model, calls, last>>

-----------------------------------------------------------------------------
(* Bounds of the model *)

\* longest series of the differencing specification
MaxLen == 3
\* largest differencing order tried (beyond MaxLen, so that d > N happens)
MaxD == 4

-----------------------------------------------------------------------------
(* f64 arithmetic *)

Abs(n) == IF n < 0 THEN -n ELSE n

Sgn(n) == IF n < 0 THEN -1 ELSE IF n > 0 THEN 1 ELSE 0

RECURSIVE Gcd(_, _)
Gcd(a, b) == IF b = 0 THEN a ELSE Gcd(b, a % b)

\* the f64 closest to the fraction n/d (d may be zero or negative)
Norm(n, d) ==
  IF d = 0 THEN <<Sgn(n), 0>>
  ELSE LET g == Gcd(Abs(n), Abs(d))
           s == Sgn(d)
       IN  <<(s * n) \div g, (s * d) \div g>>

F(n) == <<n, 1>>
NaN == <<0, 0>>
PInf == <<1, 0>>
NInf == <<-1, 0>>
Zero == <<0, 1>>
One == <<1, 1>>

IsNaN(a) == a = NaN
IsFinite(a) == a[2] # 0

FNeg(a) == <<-a[1], a[2]>>

\* the sum of two finite fractions over their least common denominator
AddFinite(a, b, g) ==
  Norm(a[1] * (b[2] \div g) + b[1] * (a[2] \div g), (a[2] \div g) * b[2])

FAdd(a, b) ==
  IF IsFinite(a) /\ IsFinite(b) THEN AddFinite(a, b, Gcd(a[2], b[2]))
  ELSE IF IsNaN(a) \/ IsNaN(b) THEN NaN
  ELSE IF IsFinite(a) THEN b
  ELSE IF IsFinite(b) THEN a
  ELSE IF a = b THEN a ELSE NaN

FSub(a, b) == FAdd(a, FNeg(b))

\* the product of two finite fractions, reduced crosswise before multiplying
MulFinite(a, b, g, h) ==
  Norm((a[1] \div g) * (b[1] \div h), (a[2] \div h) * (b[2] \div g))

FMul(a, b) ==
  IF IsFinite(a) /\ IsFinite(b)
    THEN MulFinite(a, b, Gcd(Abs(a[1]), b[2]), Gcd(Abs(b[1]), a[2]))
  ELSE Norm(a[1] * b[1], a[2] * b[2])

\* 1/a: 1/0 is +inf, 1/inf is 0
Recip(a) == Norm(a[2], a[1])

FDiv(a, b) == FMul(a, Recip(b))

\* f64::partial_cmp: "Less", "Equal", "Greater", or "None" when a NaN is compared
partial_cmp(a, b) ==
  IF IsNaN(a) \/ IsNaN(b) THEN "None"
  ELSE LET l == IF a[2] = 0 /\ b[2] = 0 THEN a[1] ELSE a[1] * b[2]
           r == IF a[2] = 0 /\ b[2] = 0 THEN b[1] ELSE b[1] * a[2]
       IN  IF l < r THEN "Less" ELSE IF l > r THEN "Greater" ELSE "Equal"

FLt(a, b) == partial_cmp(a, b) = "Less"

\* the sum of a sequence of f64, left to right from 0.0
RECURSIVE FSumTo(_, _)
FSumTo(s, k) == IF k = 0 THEN Zero ELSE FAdd(FSumTo(s, k - 1), s[k])

FSum(s) == LET v == SubSeq(s, 1, Len(s)) IN FSumTo(v, Len(v))

\* the indices 1..n, none when n <= 0 (an empty Rust range)
Range(n) == 1..(IF n < 0 THEN 0 ELSE n)

\* a vector given by its entries, each computed once
Vec(f) == SubSeq(f, 1, Len(f))

\* n copies of v (vec![v; n])
Rep(v, n) == Vec([i \in Range(n) |-> v])

\* results of a call: the value it returns, or a panic
Ok(v) == [ok |-> TRUE, v |-> v]
Panic == [ok |-> FALSE, v |-> <<>>]

-----------------------------------------------------------------------------
(* ancilla.rs: the differencing transforms *)

\* (mutant) the inner loop of diff walking forwards, so that each step reads
\* a neighbour the loop has already overwritten
RECURSIVE diff_inner_forward(_, _, _, _)
diff_inner_forward(y, len, s, i) ==
  IF i >= len - s THEN y
  ELSE diff_inner_forward([y EXCEPT ![s + i + 1] = FSub(y[s + i + 1], y[s + i])],
                          len, s, i + 1)

\* the inner loop of diff: for i in 1..len - s { y[len - i] -= y[len - i - 1] }
RECURSIVE diff_inner(_, _, _, _)
diff_inner(y, len, s, i) ==
  IF i >= len - s THEN y
  ELSE diff_inner([y EXCEPT ![len - i + 1] = FSub(y[len - i + 1], y[len - i])],
                  len, s, i + 1)

\* the outer loop of diff: for s in 0..d
RECURSIVE diff_outer(_, _, _, _)
diff_outer(y, len, s, d) ==
  IF s >= d THEN y
  ELSE diff_outer(diff_inner(y, len, s, 1), len, s + 1, d)

\* diff(x, d).  With d > len the call panics in every build: at s = len + 1
\* the bound len - s overflows (a panic with overflow checks, an index out
\* of range without them), and for d = len + 1 y.drain(0..d) is out of range.
diff(x, d) ==
  IF d > Len(x) THEN Panic
  ELSE Ok(SubSeq(diff_outer(x, Len(x), 0, d), d + 1, Len(x)))

\* (mutant) the loop of cumsum adding the previous input, not the running sum
RECURSIVE cumsum_loop_no_carry(_, _, _)
cumsum_loop_no_carry(x, y, i) ==
  IF i >= Len(x) THEN y
  ELSE cumsum_loop_no_carry(x, Append(y, FAdd(x[i], x[i + 1])), i + 1)

\* the loop of cumsum: y.push(y[i - 1] + x[i])
RECURSIVE cumsum_loop(_, _, _)
cumsum_loop(x, y, i) ==
  IF i >= Len(x) THEN y
  ELSE cumsum_loop(x, Append(y, FAdd(y[i], x[i + 1])), i + 1)

cumsum(x) ==
  IF Len(x) < 2 THEN <<Zero>>
  ELSE cumsum_loop(x, <<x[1]>>, 1)

RECURSIVE inverse_diff_loop(_, _)
inverse_diff_loop(cum, k) ==
  IF k = 0 THEN cum ELSE inverse_diff_loop(cumsum(cum), k - 1)

\* (mutant) the cumulative sums taken on x itself, without the d leading zeros
inverse_diff_unpadded(x, d) == inverse_diff_loop(x, d)

inverse_diff(x, d) == inverse_diff_loop(Rep(Zero, d) \o x, d)

\* the slice v[d..]: a panic when d > len
slice_from(v, d) == IF d > Len(v) THEN Panic ELSE Ok(SubSeq(v, d + 1, Len(v)))

\* diff(&inverse_diff(x, d)[d..].to_vec(), d)
round_trip(x, d) ==
  LET t == slice_from(inverse_diff(x, d), d)
  IN  IF t.ok THEN diff(t.v, d) ELSE Panic

\* diff(&inverse_diff(x, d), d): the reconstruction differenced again, with
\* none of its leading entries dropped before the call
diff_of_inverse(y, d) == [inv |-> y, ret |-> diff(y, d)]

-----------------------------------------------------------------------------
(* Library functions the estimators call *)

RECURSIVE Log2Floor(_, _)
Log2Floor(n, d) ==
  IF n >= 2 * d THEN 1 + Log2Floor(n, 2 * d)
  ELSE IF n < d THEN Log2Floor(2 * n, d) - 1
  ELSE 0

\* f64::ln.  The logarithm is not a fraction: it is modelled by a monotone
\* integer-valued logarithm (the floor of the base-2 logarithm), with ln's
\* special cases kept: ln(0) = -inf, ln(x) = NaN for x < 0 or NaN, ln(inf) = inf.
Ln(a) ==
  IF IsNaN(a) \/ a[1] < 0 THEN NaN
  ELSE IF a = PInf THEN PInf
  ELSE IF a[1] = 0 THEN NInf
  ELSE F(Log2Floor(a[1], a[2]))

\* a square matrix of dimension n is a function 1..n -> 1..n -> f64
Minor(A, n, col) ==
  Vec([i \in Range(n - 1) |->
        Vec([j \in Range(n - 1) |-> A[i + 1][IF j < col THEN j ELSE j + 1]])])

RECURSIVE Det(_, _)
Det(A, n) ==
  IF n = 0 THEN One
  ELSE FSum([j \in Range(n) |->
              FMul(IF j % 2 = 1 THEN A[1][j] ELSE FNeg(A[1][j]), Det(Minor(A, n, j), n - 1))])

ReplaceCol(A, n, col, b) ==
  Vec([i \in Range(n) |-> Vec([j \in Range(n) |-> IF j = col THEN b[i] ELSE A[i][j]])])

\* the solution of A x = b for a matrix with non-zero determinant
LinSolve(A, b, n) ==
  LET det == Det(A, n)
  IN  Vec([i \in Range(n) |-> FDiv(Det(ReplaceCol(A, n, i, b), n), det)])

\* nalgebra's QR::solve: None when the triangular factor has a zero on its
\* diagonal, that is when the matrix is singular; a NaN is not a zero
qr_solve(A, b, n) ==
  IF Det(A, n) = Zero THEN [some |-> FALSE, x |-> <<>>]
  ELSE [some |-> TRUE, x |-> LinSolve(A, b, n)]

\* nalgebra's Cholesky: Some only when every pivot is > 0, that is when every
\* leading minor of the matrix is > 0
cholesky_ok(A, n) ==
  \A k \in 1..n : FLt(Zero, Det([i \in Range(k) |-> [j \in Range(k) |-> A[i][j]]], k))

-----------------------------------------------------------------------------
(* ancilla.rs: mean, autocorrelation, partial autocorrelation, residuals *)

\* data[i] of the source (0-based)
At(x, i) == x[i + 1]

Min(a, b) == IF a < b THEN a ELSE b

Square(a) == FMul(a, a)

mean(x) == FDiv(FSum(x), F(Len(x)))

\* the sum acf accumulates in y[t]: the terms (x[i] - mean)(x[i+t] - mean) / n
autocov(x, mean_x, t) ==
  FSum([i \in Range(Len(x) - t) |->
         FDiv(FMul(FSub(x[i], mean_x), FSub(x[i + t], mean_x)), F(Len(x)))])

\* the sums y[0..max_lag] of acf
acf_sums(x, max_lag, mean_x) ==
  Vec([k \in Range(max_lag + 1) |-> autocov(x, mean_x, k - 1)])

\* (mutant) correlation mode dividing every entry, y[0] included, by y[0]
acf_scale_every(y, covariance) ==
  Vec([k \in 1..Len(y) |-> IF covariance THEN y[k] ELSE FDiv(y[k], y[1])])

\* correlation mode divides y[t], t > 0, by y[0] and sets y[0] to 1.0
acf_scale(y, covariance) ==
  Vec([k \in 1..Len(y) |->
        IF covariance THEN y[k] ELSE IF k = 1 THEN One ELSE FDiv(y[k], y[1])])

\* acf for a non-empty series; max_lag is the Option's value, -1 standing for None
acf_values(x, max_lag, covariance) ==
  acf_scale(acf_sums(x, IF max_lag < 0 THEN Len(x) - 1 ELSE Min(max_lag, Len(x) - 1),
                     FDiv(FSum(x), F(Len(x)))),
            covariance)

\* acf(x, max_lag, covariance).  On an empty series x.len() - 1 overflows:
\* a panic with overflow checks.  Without them the lag loop indexes x[0] and
\* panics, unless max_lag is Some(0), where the result is the one initial
\* entry, or None, where max_lag + 1 wraps to an empty result (and writing
\* y[0] = 1.0 then panics in correlation mode).
acf(x, max_lag, covariance, chk) ==
  IF Len(x) > 0 THEN Ok(acf_values(x, max_lag, covariance))
  ELSE IF chk THEN Panic
  ELSE IF max_lag = 0 THEN Ok(<<IF covariance THEN Zero ELSE One>>)
  ELSE IF max_lag < 0 /\ covariance THEN Ok(<<>>)
  ELSE Panic

\* (mutant) the lower coefficients carried over from order i - 1 unchanged
ar_dl_carry(prev, i, phi_ii) ==
  Vec([k \in Range(i) |-> IF k = i THEN phi_ii ELSE prev[k]])

\* the coefficients of order i from those of order i - 1 (prev) and phi_ii
ar_dl_update(prev, i, phi_ii) ==
  Vec([k \in Range(i) |-> IF k = i THEN phi_ii
                          ELSE FSub(prev[k], FMul(phi_ii, prev[i - k]))])

\* one step of the Levinson-Durbin recursion: from the previous order's
\* coefficients prev (order i - 1) to those of order i
ar_dl_step(rho, prev, i) ==
  ar_dl_update(prev, i,
    FDiv(FSub(At(rho, i), FSum([k \in Range(i - 1) |-> FMul(prev[k], At(rho, i - k))])),
         FSub(One, FSum([k \in Range(i - 1) |-> FMul(prev[k], At(rho, k))]))))

RECURSIVE ar_dl_loop(_, _, _, _)
ar_dl_loop(rho, prev, i, order) ==
  IF i > order THEN prev
  ELSE ar_dl_loop(rho, ar_dl_step(rho, prev, i), i + 1, order)

\* ar_dl_rho_cov(rho, cov0, Some(order)): the coefficients phi[order]
ar_dl_rho_cov(rho, cov0, order) ==
  IF Min(order, Len(rho) - 1) = 0 THEN <<Zero>>
  ELSE ar_dl_loop(rho, <<>>, 1, Min(order, Len(rho) - 1))

\* pacf_rho_cov0(rho, cov0, Some(max_lag))
pacf_rho_cov0(rho, cov0, max_lag) ==
  Vec([i \in Range(Min(max_lag, Len(rho) - 1)) |-> ar_dl_rho_cov(rho, cov0, i)[i]])

\* pacf once its two calls of acf have ended
pacf_of(rho, cov0, max_lag) ==
  IF rho.ok /\ cov0.ok THEN Ok(pacf_rho_cov0(rho.v, cov0.v[1], max_lag)) ELSE Panic

\* pacf(x, Some(max_lag))
pacf(x, max_lag, chk) ==
  pacf_of(acf(x, max_lag, FALSE, chk), acf(x, 0, TRUE, chk), max_lag)

\* (mutant) the moving-average terms taken on the series, not on the residuals
residual_on_series(x, intercept, phi, theta, r, t) ==
  FSub(At(x, t),
       FAdd(FAdd(intercept, FSum([j \in 1..Len(phi) |-> FMul(phi[j], At(x, t - j))])),
            FSum([j \in 1..Min(Len(theta), t) |-> FMul(theta[j], At(x, t - j))])))

\* the residual at index t, r holding the residuals before it
residual_at(x, intercept, phi, theta, r, t) ==
  FSub(At(x, t),
       FAdd(FAdd(intercept, FSum([j \in 1..Len(phi) |-> FMul(phi[j], At(x, t - j))])),
            FSum([j \in 1..Min(Len(theta), t) |-> FMul(theta[j], At(r, t - j))])))

\* the loop of residuals, from index t on, r holding the residuals so far
RECURSIVE residuals_loop(_, _, _, _, _, _)
residuals_loop(x, intercept, phi, theta, r, t) ==
  IF t >= Len(x) THEN r
  ELSE residuals_loop(x, intercept, phi, theta,
                      Append(r, residual_at(x, intercept, phi, theta, r, t)), t + 1)

residuals(x, intercept, phi, theta) ==
  residuals_loop(x, intercept, phi, theta, Rep(Zero, Len(phi)), Len(phi))

\* the error of the AR prediction at index i: data[i] - sum coefficients[j] * data[i - j - 1]
ar_error(x, coefficients, i) ==
  FSub(At(x, i), FSum([j \in 1..Len(coefficients) |-> FMul(coefficients[j], At(x, i - j))]))

\* the errors at the indices coefficients.len()..data.len()
ar_errors(x, coefficients) ==
  Vec([k \in Range(Len(x) - Len(coefficients)) |->
        ar_error(x, coefficients, Len(coefficients) + k - 1)])

\* utils::compute_variance, used by ARIMA and, as a private copy, by ARMA
compute_variance(x, coefficients) ==
  FDiv(FSum([k \in Range(Len(x) - Len(coefficients)) |->
              Square(ar_error(x, coefficients, Len(coefficients) + k - 1))]),
       F(Len(x)))

-----------------------------------------------------------------------------
(* liblbfgs: the quasi-Newton minimiser *)

\* lbfgs().minimize(&mut coef, evaluate, ..): the minimiser is a deterministic
\* function of its start vector and objective.  For the one series of a
\* behaviour it is modelled by lbfgs_step: the vector it leaves in coef is the
\* start vector moved by lbfgs_step[dimension] in every coordinate.
lbfgs_minimize(coef) ==
  Vec([i \in 1..Len(coef) |->
        FAdd(coef[i], IF Len(coef) \in DOMAIN lbfgs_step THEN F(lbfgs_step[Len(coef)])
                      ELSE Zero)])

\* (mutant) the start vector without the intercept
css_start_no_mean(mean_x, p, ma) ==
  IF p.ok THEN Ok(p.v \o Rep(One, ma)) ELSE Panic

\* the start vector from its parts: [mean, pacf at lags 1..ar, 1.0 x ma]
css_start(mean_x, p, ma) ==
  IF p.ok THEN Ok(<<mean_x>> \o p.v \o Rep(One, ma)) ELSE Panic

\* the start vector of every fit_css
css_initial(x, ar, ma, chk) ==
  css_start(mean(x), IF ar > 0 THEN pacf(x, ar, chk) ELSE Ok(<<>>), ma)

\* what minimize leaves and returns: the vector in coef, and Ok or Err
minimize_result(coef) == [coef |-> lbfgs_minimize(coef), err |-> lbfgs_err]

\* (mutant) an Err of the minimiser ending the fit
fail_on_error(r) == IF r.err THEN Panic ELSE Ok(r.coef)

\* if let Err(e) = fmin.minimize(..) { tracing::warn!("{}", e); }: an Err is
\* logged and the fit goes on with coef as the minimiser left it
warn_on_error(r) == Ok(r.coef)

\* the minimiser run from the start vector c.  The objective asserts
\* coef.len() == 1 + ar + ma on its first evaluation.
css_minimize(c, ar, ma) ==
  IF c.ok /\ Len(c.v) = 1 + ar + ma THEN warn_on_error(minimize_result(c.v)) ELSE Panic

\* the body shared by every fit_css: the coefficients the minimiser leaves
css_coef(x, ar, ma, chk) == css_minimize(css_initial(x, ar, ma, chk), ar, ma)

-----------------------------------------------------------------------------
(* ar.rs: the AutoRegressive facade *)

\* the variance of the errors about the value m
variance_about(errors, m) ==
  FDiv(FSum([k \in 1..Len(errors) |-> Square(FSub(errors[k], m))]), F(Len(errors)))

\* the variance of the errors about sum(errors) / n, n being data.len()
errors_variance(errors, n) == variance_about(errors, FDiv(FSum(errors), F(n)))

\* compute_variance of ar.rs: the errors' variance about sum(errors) / data.len()
ar_compute_variance(x, coefficients) ==
  errors_variance(ar_errors(x, coefficients), Len(x))

compute_aic(n, residual_sum_of_squares, p) ==
  FAdd(F(2 * p), FMul(F(n), Ln(FDiv(residual_sum_of_squares, F(n)))))

compute_bic(n, residual_sum_of_squares, p) ==
  FAdd(FMul(F(n), Ln(FDiv(residual_sum_of_squares, F(n)))), FMul(F(p), Ln(F(n))))

\* what an estimator did: whether it returned, the phi it left, whether it
\* computed anything (a sum, a matrix entry, a division) before ending, and
\* how it ended: "assigned" (self.phi written), "kept" (self.phi not written),
\* "solve_none" (the linear solve returned None, self.phi not written)
Est(ok, phi, numeric, note) == [ok |-> ok, phi |-> phi, numeric |-> numeric, note |-> note]

\* the matrix X'X of fit_ols
ols_xtx(x, order) ==
  Vec([a \in Range(order) |-> Vec([b \in Range(order) |->
        FSum([i \in Range(Len(x) - order) |->
               FMul(At(x, order + i - 1 - a), At(x, order + i - 1 - b))])])])

\* the vector X'y of fit_ols
ols_xty(x, order) ==
  Vec([a \in Range(order) |->
        FSum([i \in Range(Len(x) - order) |->
               FMul(At(x, order + i - 1 - a), At(x, order + i - 1))])])

\* (mutant) a failed factorisation answered with zero coefficients
ols_solve_zero(m, xtx, xty, order) ==
  IF ~cholesky_ok(xtx, order) THEN Est(TRUE, Rep(Zero, order), TRUE, "assigned")
  ELSE Est(TRUE, LinSolve(xtx, xty, order), TRUE, "assigned")

\* xtx.cholesky().expect(..) and the solve that follows
ols_solve(m, xtx, xty, order) ==
  IF ~cholesky_ok(xtx, order) THEN Est(FALSE, m.phi, TRUE, "kept")
  ELSE Est(TRUE, LinSolve(xtx, xty, order), TRUE, "assigned")

fit_ols(m, x, order) ==
  IF Len(x) <= order THEN Est(FALSE, m.phi, FALSE, "kept")
  ELSE ols_solve(m, ols_xtx(x, order), ols_xty(x, order), order)

\* reversed: solution.iter().rev()
Reverse(s) == Vec([i \in 1..Len(s) |-> s[Len(s) + 1 - i]])

\* the matrix rho of fit_yule_walker
yw_rho(x, order) ==
  Vec([i \in Range(order) |-> Vec([j \in Range(order) |->
        FDiv(FSum([k \in Range(Len(x) - order) |-> FMul(x[k + i - 1], x[k + j - 1])]),
             F(Len(x) - order))])])

\* the vector r of fit_yule_walker
yw_r(x, order) ==
  Vec([i \in Range(order) |->
        FDiv(FSum([k \in Range(Len(x) - order) |-> FMul(x[k + i - 1], x[k + order])]),
             F(Len(x) - order))])

\* (mutant) the solution stored as solved, without the reversal
yw_assign_unreversed(m, solution, order) ==
  IF solution.some THEN Est(TRUE, solution.x, order > 0, "assigned")
  ELSE Est(TRUE, m.phi, order > 0, "solve_none")

\* if let Some(solution) = rho.qr().solve(&r) { self.phi = reversed }, no else
yw_assign(m, solution, order) ==
  IF solution.some THEN Est(TRUE, Reverse(solution.x), order > 0, "assigned")
  ELSE Est(TRUE, m.phi, order > 0, "solve_none")

fit_yule_walker(m, x, order, chk) ==
  IF order > Len(x)
    \* n - order overflows: a panic at once with overflow checks; without
    \* them the k loop runs on until data[k + i] is out of range
    THEN Est(FALSE, m.phi, ~chk /\ Len(x) > 0, "kept")
  ELSE yw_assign(m, qr_solve(yw_rho(x, order), yw_r(x, order), order), order)

\* r[k] of fit_burg.  For k > len the divisor len - k overflows: reached only
\* without overflow checks, where it wraps to a huge divisor of a zero sum
burg_r(x, k) ==
  IF k > Len(x) THEN Zero
  ELSE FDiv(FSum([i \in Range(Len(x) - k) |-> FMul(At(x, k + i - 1), At(x, i - 1))]),
            F(Len(x) - k))

\* for j in 1..=i-1 { a[j] = a[j] - lambda * a[i - j] }, in place
RECURSIVE burg_update(_, _, _, _)
burg_update(a, lambda, i, j) ==
  IF j > i - 1 THEN a
  ELSE burg_update([a EXCEPT ![j + 1] = FSub(At(a, j), FMul(lambda, At(a, i - j)))],
                   lambda, i, j + 1)

\* lambda of step i: (r[i] - sum a[j] * r[i - j]) / e[i - 1]
burg_lambda(r, a, e, i) ==
  FDiv(FSub(At(r, i), FSum([j \in Range(i - 1) |-> FMul(At(a, j), At(r, i - j))])),
       At(e, i - 1))

\* the recursion of fit_burg from step i on; a and e are 0-based arrays
RECURSIVE burg_loop(_, _, _, _, _)
RECURSIVE burg_next(_, _, _, _, _, _)
burg_loop(r, a, e, i, order) ==
  IF i > order THEN a
  ELSE burg_next(r, a, e, i, order, burg_lambda(r, a, e, i))

\* the writes of step i, given its lambda, and the steps after it
burg_next(r, a, e, i, order, lambda) ==
  burg_loop(r,
            burg_update([a EXCEPT ![i + 1] = lambda], lambda, i, 1),
            [e EXCEPT ![i + 1] = FMul(FSub(One, Square(lambda)), At(e, i - 1))],
            i + 1, order)

\* fit_burg once r is computed: e[0] = r[0], the recursion, phi = a[1..]
burg_from(r, order) ==
  Est(TRUE,
      SubSeq(burg_loop(r, Rep(Zero, order + 1),
                       [Rep(Zero, order + 1) EXCEPT ![1] = r[1]], 1, order),
             2, order + 1),
      TRUE, "assigned")

fit_burg(m, x, order, chk) ==
  IF chk /\ order > Len(x) THEN Est(FALSE, m.phi, TRUE, "kept")
  ELSE burg_from(Vec([k \in Range(order + 1) |-> burg_r(x, k - 1)]), order)

\* self.phi = coef[1..=ar] of AutoRegressive::fit_css
ar_css_assign(m, c, ar) ==
  IF c.ok THEN Est(TRUE, SubSeq(c.v, 2, ar + 1), TRUE, "assigned")
  ELSE Est(FALSE, m.phi, TRUE, "kept")

ar_fit_css(m, x, ar, chk) == ar_css_assign(m, css_coef(x, ar, 0, chk), ar)

ARMethods == {"OLS", "YWALKER", "BURG", "CSS"}

ar_estimate(m, x, order, method, chk) ==
  CASE method = "OLS" -> fit_ols(m, x, order)
    [] method = "YWALKER" -> fit_yule_walker(m, x, order, chk)
    [] method = "BURG" -> fit_burg(m, x, order, chk)
    [] method = "CSS" -> ar_fit_css(m, x, order, chk)

\* what a facade call did: whether it returned, the object it left, whether
\* anything was computed, how its last estimator ended, the criterion values
\* an autofit recorded and the orders of every fit made, in order
Done(ok, m, numeric, note, crit, fits) ==
  [ok |-> ok, m |-> m, numeric |-> numeric, note |-> note, crit |-> crit, fits |-> fits]

\* the writes of AutoRegressive::fit after its estimator: sigma_squared, aic, bic
ar_diagnostics(m, n, order, phi, s2) ==
  [m EXCEPT !.phi = phi,
            !.sigma_squared = s2,
            !.aic = compute_aic(n, s2, order),
            !.bic = compute_bic(n, s2, order)]

\* AutoRegressive::fit once its estimator has ended as e
ar_after(m, x, order, e) ==
  IF ~e.ok THEN Done(FALSE, m, e.numeric, e.note, <<>>, <<order>>)
  ELSE Done(TRUE,
            ar_diagnostics(m, Len(x), order, e.phi, ar_compute_variance(x, e.phi)),
            TRUE, e.note, <<>>, <<order>>)

\* AutoRegressive::fit
ar_fit(m, x, order, method, chk) ==
  ar_after(m, x, order, ar_estimate(m, x, order, method, chk))

\* iter().enumerate().min_by(|a, b| a.partial_cmp(b).unwrap_or(Equal)): a fold
\* that replaces the running minimum only by a strictly smaller later element
RECURSIVE min_by(_, _, _)
min_by(v, best, i) ==
  IF i > Len(v) THEN best
  ELSE min_by(v, IF partial_cmp(v[best], v[i]) = "Greater" THEN i ELSE best, i + 1)

\* .map(|(index, _)| index).unwrap_or(0): the 0-based index of the minimum
min_index(v) == IF v = <<>> THEN 0 ELSE min_by(v, 1, 2) - 1

\* the value an autofit pushes after a fit: self.aic or self.bic
criterion_of(m, criterion) == IF criterion = "AIC" THEN m.aic ELSE m.bic

\* the last fit of an autofit, f, made at the selected order after the loop l
refit(l, f, selected) == Done(f.ok, f.m, TRUE, f.note, l.crit, Append(l.fits, selected))

\* the candidate loop of autofit_aic / autofit_bic: for order in 1..(max_order + 1)
RECURSIVE ar_autofit_loop(_, _, _, _, _, _, _, _)
RECURSIVE ar_autofit_next(_, _, _, _, _, _, _, _)
ar_autofit_loop(m, x, order, max_order, criterion, crit, fits, chk) ==
  IF order > max_order THEN Done(TRUE, m, Len(fits) > 0, "kept", crit, fits)
  ELSE ar_autofit_next(x, order, max_order, criterion, crit, fits, chk,
                       ar_fit(m, x, order, "YWALKER", chk))

\* the rest of the loop after the fit f at order: push the criterion, go on
ar_autofit_next(x, order, max_order, criterion, crit, fits, chk, f) ==
  IF ~f.ok THEN Done(FALSE, f.m, TRUE, f.note, crit, Append(fits, order))
  ELSE ar_autofit_loop(f.m, x, order + 1, max_order, criterion,
                       Append(crit, criterion_of(f.m, criterion)), Append(fits, order), chk)

\* self.fit(data, min_order, YWALKER) after the loop l
ar_refit_at(x, chk, l, min_order) ==
  refit(l, ar_fit(l.m, x, min_order, "YWALKER", chk), min_order)

\* the selection after the loop l: index + 1, or unwrap_or(0) when nothing
\* was recorded
ar_autofit_select(x, chk, l) ==
  IF ~l.ok THEN l
  ELSE ar_refit_at(x, chk, l, IF l.crit = <<>> THEN 0 ELSE min_index(l.crit) + 1)

\* AutoRegressive::autofit
ar_autofit(m, x, max_order, criterion, chk) ==
  ar_autofit_select(x, chk, ar_autofit_loop(m, x, 1, max_order, criterion, <<>>, <<>>, chk))

-----------------------------------------------------------------------------
(* arma.rs: the ARMA facade *)

\* what a two-vector estimator did: whether it returned, the phi and theta it
\* left, and how it ended ("assigned" or "kept", as for Est)
Est2(ok, phi, theta, note) == [ok |-> ok, phi |-> phi, theta |-> theta, note |-> note]

\* self.phi = coef[1..=ar], self.theta = coef[ar+1..] of ARMA::fit_css
arma_css_assign(m, c, ar) ==
  IF c.ok THEN Est2(TRUE, SubSeq(c.v, 2, ar + 1), SubSeq(c.v, ar + 2, Len(c.v)), "assigned")
  ELSE Est2(FALSE, m.phi, m.theta, "kept")

\* ARMA::fit_css
arma_fit_css(m, x, ar, ma, chk) == arma_css_assign(m, css_coef(x, ar, ma, chk), ar)

\* ARMA::fit_hannan_rissanen: an empty body
fit_hannan_rissanen(m, x, ar, ma) == Est2(TRUE, m.phi, m.theta, "kept")

\* ARMA::fit_ml: an empty body
arma_fit_ml(m, x, ar, ma) == Est2(TRUE, m.phi, m.theta, "kept")

ARMAMethods == {"HRISSANEN", "CSS", "ML"}

\* the match on method of ARMA::fit
arma_estimate(m, x, ar_order, ma_order, method, chk) ==
  CASE method = "HRISSANEN" -> fit_hannan_rissanen(m, x, ar_order, ma_order)
    [] method = "CSS" -> arma_fit_css(m, x, ar_order, ma_order, chk)
    [] method = "ML" -> arma_fit_ml(m, x, ar_order, ma_order)

\* the writes of ARMA::fit after its estimator e: sigma_squared, aic, bic with
\* k = ar_order + ma_order.  compute_aic and compute_bic of arma.rs are private
\* copies, the same statement for statement as those of ar.rs.
arma_diagnostics(m, n, k, e, s2) ==
  [m EXCEPT !.phi = e.phi,
            !.theta = e.theta,
            !.sigma_squared = s2,
            !.aic = compute_aic(n, s2, k),
            !.bic = compute_bic(n, s2, k)]

\* ARMA::fit once its estimator has ended as e.  compute_variance of arma.rs
\* is a private copy, the same statement for statement as that of ancilla.rs.
arma_after(m, x, ar_order, ma_order, e) ==
  IF ~e.ok THEN Done(FALSE, m, TRUE, e.note, <<>>, <<<<ar_order, ma_order>>>>)
  ELSE Done(TRUE,
            arma_diagnostics(m, Len(x), ar_order + ma_order, e, compute_variance(x, e.phi)),
            TRUE, e.note, <<>>, <<<<ar_order, ma_order>>>>)

\* ARMA::fit
arma_fit(m, x, ar_order, ma_order, method, chk) ==
  arma_after(m, x, ar_order, ma_order, arma_estimate(m, x, ar_order, ma_order, method, chk))

\* the pairs of a row of the grid: (ar_order, lo), .., (ar_order, max_ma_order)
row_pairs(ar_order, lo, max_ma_order) ==
  Vec([j \in Range(max_ma_order - lo + 1) |-> <<ar_order, lo + j - 1>>])

\* the pairs of for ar_order in lo..=max_ar_order { for ma_order in lo..=max_ma_order },
\* in the order the loops visit them
RECURSIVE grid_pairs(_, _, _, _)
grid_pairs(ar_order, lo, max_ar_order, max_ma_order) ==
  IF ar_order > max_ar_order THEN <<>>
  ELSE row_pairs(ar_order, lo, max_ma_order)
         \o grid_pairs(ar_order + 1, lo, max_ar_order, max_ma_order)

\* the body of the ARMA grid loops from pair i on: fit by CSS at the pair,
\* push the criterion; a panic of a fit ends the loop
RECURSIVE arma_fit_pairs(_, _, _, _, _, _, _, _)
RECURSIVE arma_fit_pairs_next(_, _, _, _, _, _, _, _)
arma_fit_pairs(m, x, pairs, i, criterion, crit, fits, chk) ==
  IF i > Len(pairs) THEN Done(TRUE, m, Len(fits) > 0, "kept", crit, fits)
  ELSE arma_fit_pairs_next(x, pairs, i, criterion, crit, fits, chk,
                           arma_fit(m, x, pairs[i][1], pairs[i][2], "CSS", chk))

\* the rest of the loop after the fit f at pair i
arma_fit_pairs_next(x, pairs, i, criterion, crit, fits, chk, f) ==
  IF ~f.ok THEN Done(FALSE, f.m, TRUE, f.note, crit, Append(fits, pairs[i]))
  ELSE arma_fit_pairs(f.m, x, pairs, i + 1, criterion,
                      Append(crit, criterion_of(f.m, criterion)), Append(fits, pairs[i]), chk)

\* the decoding of ARMA::autofit_aic: min_order / max_ar_order and
\* min_order.rem_euclid(max_ma_order), each a panic when its divisor is 0
arma_decode(min_order, max_ar_order, max_ma_order) ==
  IF max_ar_order = 0 \/ max_ma_order = 0 THEN Panic
  ELSE Ok(<<min_order \div max_ar_order, min_order % max_ma_order>>)

\* self.fit(data, ar_order, ma_order, CSS) at the decoded pair after the loop l
arma_refit_at(x, chk, l, pair) ==
  IF ~pair.ok THEN Done(FALSE, l.m, TRUE, l.note, l.crit, l.fits)
  ELSE refit(l, arma_fit(l.m, x, pair.v[1], pair.v[2], "CSS", chk), pair.v)

\* the selection of ARMA::autofit_aic after the loop l
arma_aic_select(x, max_ar_order, max_ma_order, chk, l) ==
  IF ~l.ok THEN l
  ELSE arma_refit_at(x, chk, l, arma_decode(min_index(l.crit), max_ar_order, max_ma_order))

\* ARMA::autofit_aic
arma_autofit_aic(m, x, max_ar_order, max_ma_order, chk) ==
  arma_aic_select(x, max_ar_order, max_ma_order, chk,
                  arma_fit_pairs(m, x, grid_pairs(0, 0, max_ar_order, max_ma_order), 1,
                                 "AIC", <<>>, <<>>, chk))

\* ARMA::autofit_bic from ar_order on: the inner loop over ma_order from 1,
\* then, still inside the outer loop, the fit at (1, 1)
RECURSIVE arma_autofit_bic_loop(_, _, _, _, _, _, _, _)
RECURSIVE arma_bic_row_done(_, _, _, _, _, _)
RECURSIVE arma_bic_refit_done(_, _, _, _, _, _, _)
arma_autofit_bic_loop(m, x, ar_order, max_ar_order, max_ma_order, crit, fits, chk) ==
  IF ar_order > max_ar_order THEN Done(TRUE, m, Len(fits) > 0, "kept", crit, fits)
  ELSE arma_bic_row_done(x, ar_order, max_ar_order, max_ma_order, chk,
                         arma_fit_pairs(m, x, row_pairs(ar_order, 1, max_ma_order), 1,
                                        "BIC", crit, fits, chk))

\* after the inner loop l of a row: the fit at (1, 1)
arma_bic_row_done(x, ar_order, max_ar_order, max_ma_order, chk, l) ==
  IF ~l.ok THEN l
  ELSE arma_bic_refit_done(x, ar_order, max_ar_order, max_ma_order, chk, l,
                           arma_fit(l.m, x, 1, 1, "CSS", chk))

\* after the fit f at (1, 1): the next row
arma_bic_refit_done(x, ar_order, max_ar_order, max_ma_order, chk, l, f) ==
  IF ~f.ok THEN Done(FALSE, f.m, TRUE, f.note, l.crit, Append(l.fits, <<1, 1>>))
  ELSE arma_autofit_bic_loop(f.m, x, ar_order + 1, max_ar_order, max_ma_order,
                             l.crit, Append(l.fits, <<1, 1>>), chk)

arma_autofit_bic(m, x, max_ar_order, max_ma_order, chk) ==
  arma_autofit_bic_loop(m, x, 1, max_ar_order, max_ma_order, <<>>, <<>>, chk)

\* ARMA::autofit
arma_autofit(m, x, max_ar_order, max_ma_order, criterion, chk) ==
  IF criterion = "AIC" THEN arma_autofit_aic(m, x, max_ar_order, max_ma_order, chk)
  ELSE arma_autofit_bic(m, x, max_ar_order, max_ma_order, chk)

-----------------------------------------------------------------------------
(* arima.rs: the ARIMA facade *)

\* utils::compute_aic, which arima.rs imports: AIC = 2k + N ln(RSS/N)
utils_compute_aic(n, residual_sum_of_squares, p) ==
  FAdd(F(2 * p), FMul(F(n), Ln(FDiv(residual_sum_of_squares, F(n)))))

\* utils::compute_bic, which arima.rs imports: BIC = N ln(RSS/N) + k ln(N)
utils_compute_bic(n, residual_sum_of_squares, p) ==
  FAdd(FMul(F(n), Ln(FDiv(residual_sum_of_squares, F(n)))), FMul(F(p), Ln(F(n))))

\* self.phi = coef[1..=ar], self.theta = coef[ar+1..] of ARIMA::fit_css
arima_css_assign(m, c, ar) ==
  IF c.ok THEN Est2(TRUE, SubSeq(c.v, 2, ar + 1), SubSeq(c.v, ar + 2, Len(c.v)), "assigned")
  ELSE Est2(FALSE, m.phi, m.theta, "kept")

\* ARIMA::fit_css
arima_fit_css(m, x, ar, ma, chk) == arima_css_assign(m, css_coef(x, ar, ma, chk), ar)

\* ARIMA::fit_ml: an empty body
arima_fit_ml(m, x, ar, ma) == Est2(TRUE, m.phi, m.theta, "kept")

ARIMAMethods == {"CSS", "ML"}

\* the match on method of ARIMA::fit
arima_estimate(m, x, p, q, method, chk) ==
  IF method = "CSS" THEN arima_fit_css(m, x, p, q, chk) ELSE arima_fit_ml(m, x, p, q)

\* the writes of ARIMA::fit after its estimator e: self.diff only when d > 0,
\* sigma_squared, aic and bic with n = data.len() and k = p + q
arima_diagnostics(m, n, d, k, e, s2) ==
  [m EXCEPT !.phi = e.phi,
            !.theta = e.theta,
            !.diff = IF d > 0 THEN d ELSE @,
            !.sigma_squared = s2,
            !.aic = utils_compute_aic(n, s2, k),
            !.bic = utils_compute_bic(n, s2, k)]

\* ARIMA::fit once its estimator has ended as e on the series diff_x
arima_after(m, x, diff_x, p, d, q, e) ==
  IF ~e.ok THEN Done(FALSE, m, TRUE, "kept", <<>>, <<<<p, q>>>>)
  ELSE Done(TRUE,
            arima_diagnostics(m, Len(x), d, p + q, e, compute_variance(diff_x, e.phi)),
            TRUE, e.note, <<>>, <<<<p, q>>>>)

\* ARIMA::fit once the series to fit, diff_data, is computed
arima_on(m, x, diff_data, p, d, q, method, chk) ==
  IF ~diff_data.ok THEN Done(FALSE, m, TRUE, "kept", <<>>, <<<<p, q>>>>)
  ELSE arima_after(m, x, diff_data.v, p, d, q,
                   arima_estimate(m, diff_data.v, p, q, method, chk))

\* ARIMA::fit: with d > 0 the estimator and the variance see diff(data, d) and
\* self.diff is written; with d = 0 they see data and self.diff is not written
arima_fit(m, x, p, d, q, method, chk) ==
  arima_on(m, x, IF d > 0 THEN diff(x, d) ELSE Ok(x), p, d, q, method, chk)

\* the body of the ARIMA grid loops from pair i on: fit(data, ar_order, 0,
\* ma_order, CSS), push the criterion; a panic of a fit ends the loop
RECURSIVE arima_fit_pairs(_, _, _, _, _, _, _, _)
RECURSIVE arima_fit_pairs_next(_, _, _, _, _, _, _, _)
arima_fit_pairs(m, x, pairs, i, criterion, crit, fits, chk) ==
  IF i > Len(pairs) THEN Done(TRUE, m, Len(fits) > 0, "kept", crit, fits)
  ELSE arima_fit_pairs_next(x, pairs, i, criterion, crit, fits, chk,
                            arima_fit(m, x, pairs[i][1], 0, pairs[i][2], "CSS", chk))

\* the rest of the loop after the fit f at pair i
arima_fit_pairs_next(x, pairs, i, criterion, crit, fits, chk, f) ==
  IF ~f.ok THEN Done(FALSE, f.m, TRUE, f.note, crit, Append(fits, pairs[i]))
  ELSE arima_fit_pairs(f.m, x, pairs, i + 1, criterion,
                       Append(crit, criterion_of(f.m, criterion)), Append(fits, pairs[i]), chk)

\* (mutant) the index decoded by the number of rows, not the length of a row
decode_by_rows(min_order, max_ar_order, max_ma_order) ==
  <<min_order \div (max_ar_order + 1), min_order % (max_ar_order + 1)>>

\* the decoding of ARIMA::autofit_aic
arima_decode(min_order, max_ar_order, max_ma_order) ==
  <<min_order \div (max_ma_order + 1), min_order % (max_ma_order + 1)>>

\* self.fit(data, ar_order, 0, ma_order, CSS) at the decoded pair after the loop l
arima_refit_at(x, chk, l, pair) ==
  refit(l, arima_fit(l.m, x, pair[1], 0, pair[2], "CSS", chk), pair)

\* the selection of ARIMA::autofit_aic after the loop l
arima_aic_select(x, max_ar_order, max_ma_order, chk, l) ==
  IF ~l.ok THEN l
  ELSE arima_refit_at(x, chk, l, arima_decode(min_index(l.crit), max_ar_order, max_ma_order))

\* ARIMA::autofit_aic
arima_autofit_aic(m, x, max_ar_order, max_ma_order, chk) ==
  arima_aic_select(x, max_ar_order, max_ma_order, chk,
                   arima_fit_pairs(m, x, grid_pairs(0, 0, max_ar_order, max_ma_order), 1,
                                   "AIC", <<>>, <<>>, chk))

\* ARIMA::autofit_bic from ar_order on: the inner loop over ma_order from 1,
\* then, still inside the outer loop, the fit at (1, 1)
RECURSIVE arima_autofit_bic_loop(_, _, _, _, _, _, _, _)
RECURSIVE arima_bic_row_done(_, _, _, _, _, _)
RECURSIVE arima_bic_refit_done(_, _, _, _, _, _, _)
arima_autofit_bic_loop(m, x, ar_order, max_ar_order, max_ma_order, crit, fits, chk) ==
  IF ar_order > max_ar_order THEN Done(TRUE, m, Len(fits) > 0, "kept", crit, fits)
  ELSE arima_bic_row_done(x, ar_order, max_ar_order, max_ma_order, chk,
                          arima_fit_pairs(m, x, row_pairs(ar_order, 1, max_ma_order), 1,
                                          "BIC", crit, fits, chk))

\* after the inner loop l of a row: the fit at (1, 1)
arima_bic_row_done(x, ar_order, max_ar_order, max_ma_order, chk, l) ==
  IF ~l.ok THEN l
  ELSE arima_bic_refit_done(x, ar_order, max_ar_order, max_ma_order, chk, l,
                            arima_fit(l.m, x, 1, 0, 1, "CSS", chk))

\* after the fit f at (1, 1): the next row
arima_bic_refit_done(x, ar_order, max_ar_order, max_ma_order, chk, l, f) ==
  IF ~f.ok THEN Done(FALSE, f.m, TRUE, f.note, l.crit, Append(l.fits, <<1, 1>>))
  ELSE arima_autofit_bic_loop(f.m, x, ar_order + 1, max_ar_order, max_ma_order,
                              l.crit, Append(l.fits, <<1, 1>>), chk)

arima_autofit_bic(m, x, max_ar_order, max_ma_order, chk) ==
  arima_autofit_bic_loop(m, x, 1, max_ar_order, max_ma_order, <<>>, <<>>, chk)

\* the grid of ARIMA::autofit, fitted on data itself
arima_autofit_grid(m, x, max_ar_order, max_ma_order, criterion, chk) ==
  IF criterion = "AIC" THEN arima_autofit_aic(m, x, max_ar_order, max_ma_order, chk)
  ELSE arima_autofit_bic(m, x, max_ar_order, max_ma_order, chk)

\* (mutant) the grid fitted on the differenced series
arima_autofit_on_diff(m, x, d, max_ar_order, max_ma_order, criterion, chk) ==
  IF ~diff(x, d).ok THEN Done(FALSE, m, TRUE, "kept", <<>>, <<>>)
  ELSE arima_autofit_grid(m, diff(x, d).v, max_ar_order, max_ma_order, criterion, chk)

\* ARIMA::autofit: diff(data, d) is computed (a panic when d > N) and dropped
arima_autofit(m, x, d, max_ar_order, max_ma_order, criterion, chk) ==
  IF ~diff(x, d).ok THEN Done(FALSE, m, TRUE, "kept", <<>>, <<>>)
  ELSE arima_autofit_grid(m, x, max_ar_order, max_ma_order, criterion, chk)

-----------------------------------------------------------------------------
(* simulate of ar.rs, ma.rs, arma.rs and arima.rs.  The samples drawn from *)
(* the normal distribution are the leading entries of a stream; the mean   *)
(* and variance passed are taken to be valid for Normal::new.              *)

\* for _ in 0..(init + length) { output.push(normal.sample(..)) }
sim_noise(stream, n) == SubSeq(stream, 1, n)

\* for i in ma_order..(init + length) { for j { output[i] += ma[j] * err[i - j - 1] } }
sim_ma_pass(output, err, ma) ==
  Vec([i \in 1..Len(output) |->
        IF i - 1 >= Len(ma)
          THEN FAdd(output[i], FSum([j \in 1..Len(ma) |-> FMul(ma[j], err[i - j])]))
          ELSE output[i]])

\* for i in from..(init + length) { for j { output[i] += ar[j] * output[i - j - 1] } },
\* in place, from index i on
RECURSIVE sim_ar_pass(_, _, _)
sim_ar_pass(output, ar, i) ==
  IF i >= Len(output) THEN output
  ELSE sim_ar_pass([output EXCEPT ![i + 1] =
                      FAdd(@, FSum([j \in 1..Len(ar) |-> FMul(ar[j], At(output, i - j))]))],
                   ar, i + 1)

\* AutoRegressive::simulate: output[ar_order..]
ar_simulate(length, param, stream) ==
  SubSeq(IF Len(param) > 0
           THEN sim_ar_pass(sim_noise(stream, Len(param) + length), param, Len(param))
           ELSE sim_noise(stream, Len(param) + length),
         Len(param) + 1, Len(param) + length)

\* MovingAverage::simulate: output[init..]
ma_simulate(length, param, stream) ==
  SubSeq(IF Len(param) > 0
           THEN sim_ma_pass(sim_noise(stream, Len(param) + length),
                            sim_noise(stream, Len(param) + length), param)
           ELSE sim_noise(stream, Len(param) + length),
         Len(param) + 1, Len(param) + length)

\* the moving-average and autoregressive passes of ARMA::simulate over the noise
arma_passes(noise, ar_param, ma_param) ==
  sim_ar_pass(sim_ma_pass(noise, noise, ma_param), ar_param, Len(ma_param) + Len(ar_param))

\* ARMA::simulate: the passes over init + length samples, then output as it is
arma_simulate(length, ar_param, ma_param, stream) ==
  arma_passes(sim_noise(stream, Len(ar_param) + Len(ma_param) + length), ar_param, ma_param)

\* for i in 0..ma_order { output[i] = 0.0 }
sim_zero_head(output, ma_order) ==
  Vec([i \in 1..Len(output) |-> IF i <= ma_order THEN Zero ELSE output[i]])

\* the passes of ARIMA::simulate over the noise
arima_passes(noise, phi, theta) ==
  sim_ar_pass(sim_zero_head(sim_ma_pass(noise, noise, theta), Len(theta)),
              phi, Len(theta) + Len(phi))

\* the end of ARIMA::simulate: inverse_diff(&output[init..output.len() - diff], diff)
\* for diff > 0, a panic when the slice's end is before its start; else
\* output.drain(0..init)
arima_tail(output, init, d) ==
  IF d > 0
    THEN IF Len(output) - d < init THEN Panic
         ELSE Ok(inverse_diff(SubSeq(output, init + 1, Len(output) - d), d))
  ELSE Ok(SubSeq(output, init + 1, Len(output)))

\* ARIMA::simulate
arima_simulate(length, phi, d, theta, stream) ==
  arima_tail(arima_passes(sim_noise(stream, Len(phi) + Len(theta) + length), phi, theta),
             Len(phi) + Len(theta), d)

-----------------------------------------------------------------------------
(* The facade object *)

AutoRegressive_new ==
  [kind |-> "AR", phi |-> <<Zero>>, sigma_squared |-> Zero, aic |-> Zero, bic |-> Zero]

MovingAverage_new ==
  [kind |-> "MA", theta |-> <<Zero>>, sigma_squared |-> Zero, aic |-> Zero, bic |-> Zero]

ARMA_new ==
  [kind |-> "ARMA", phi |-> <<Zero>>, theta |-> <<Zero>>,
   sigma_squared |-> Zero, aic |-> Zero, bic |-> Zero]

ARIMA_new ==
  [kind |-> "ARIMA", phi |-> <<Zero>>, diff |-> 0, theta |-> <<Zero>>,
   sigma_squared |-> Zero, aic |-> Zero, bic |-> Zero]

\* before any call; ok: nothing has panicked
NoCall == [op |-> "none", ok |-> TRUE]

-----------------------------------------------------------------------------
(* ma.rs: the MovingAverage facade *)

\* (x as f64).ln().round() as usize for an integer x >= 0: ln(0) = -inf
\* saturates to 0; otherwise the integer r with e^(r - 1/2) <= x < e^(r + 1/2)
ln_round(x) ==
  CASE x < 2 -> 0
    [] x < 5 -> 1
    [] x < 13 -> 2
    [] x < 34 -> 3
    [] x < 91 -> 4
    [] x < 245 -> 5
    [] OTHER -> 6

\* m of fit_durbin, the order of the long autoregression
durbin_m(order, n) == ln_round(10 * order * n)

\* eps of fit_durbin: data[i] - sum phi[idx] * data[i - idx - 1] for i in m..len
durbin_eps(x, phi, m) ==
  Vec([k \in Range(Len(x) - m) |-> ar_error(x, phi, m + k - 1)])

\* y_ of fit_durbin: data[m..] zipped with eps, d - e
durbin_y(x, eps, m) == Vec([k \in Range(Len(eps)) |-> FSub(At(x, m + k - 1), eps[k])])

\* x.transpose() * y, with x[(row, col)] = eps[order - 1 + row - col] and
\* y = y_[order..]
durbin_xty(eps, y_, order) ==
  Vec([a \in Range(order) |->
        FSum([i \in Range(Len(eps) - order) |->
               FMul(At(eps, order + i - 1 - a), At(y_, order + i - 1))])])

\* (x.transpose() * &x).try_inverse().unwrap() * x.transpose() * y: try_inverse
\* is None for a singular matrix and the unwrap panics
durbin_solve(m, xtx, xty, order) ==
  IF Det(xtx, order) = Zero THEN Est(FALSE, m.theta, TRUE, "kept")
  ELSE Est(TRUE, LinSolve(xtx, xty, order), TRUE, "assigned")

\* the second step of fit_durbin, least squares of y on the lagged eps; the
\* matrix x.transpose() * x is that of fit_ols on eps
durbin_regress(m, eps, y_, order) ==
  durbin_solve(m, ols_xtx(eps, order), durbin_xty(eps, y_, order), order)

\* fit_durbin from eps on: n - order, with n = eps.len(), is the number of
\* rows; n < order is an overflow, or without overflow checks a slice
\* y_[order..] out of range
durbin_second(m, x, eps, dm, order) ==
  IF Len(eps) < order THEN Est(FALSE, m.theta, TRUE, "kept")
  ELSE durbin_regress(m, eps, durbin_y(x, eps, dm), order)

\* fit_durbin once the long autoregression ar_m is fitted, as f
durbin_first(m, x, dm, order, f) ==
  IF ~f.ok THEN Est(FALSE, m.theta, TRUE, "kept")
  ELSE durbin_second(m, x, durbin_eps(x, f.m.phi, dm), dm, order)

\* fit_durbin given m: n = data.len() - m overflows when m > data.len(), and
\* so does, without overflow checks, the fit of ar_m that follows
durbin_with(m, x, dm, order, chk) ==
  IF dm > Len(x) THEN Est(FALSE, m.theta, FALSE, "kept")
  ELSE durbin_first(m, x, dm, order, ar_fit(AutoRegressive_new, x, dm, "YWALKER", chk))

\* MovingAverage::fit_durbin
fit_durbin(m, x, order, chk) == durbin_with(m, x, durbin_m(order, Len(x)), order, chk)

\* self.theta = coef[1..] of MovingAverage::fit_css
ma_css_assign(m, c) ==
  IF c.ok THEN Est(TRUE, SubSeq(c.v, 2, Len(c.v)), TRUE, "assigned")
  ELSE Est(FALSE, m.theta, TRUE, "kept")

\* MovingAverage::fit_css
ma_fit_css(m, x, ma, chk) == ma_css_assign(m, css_coef(x, 0, ma, chk))

MAMethods == {"DURBIN", "CSS"}

\* the match on method of MovingAverage::fit
ma_estimate(m, x, order, method, chk) ==
  IF method = "DURBIN" THEN fit_durbin(m, x, order, chk) ELSE ma_fit_css(m, x, order, chk)

\* the writes of MovingAverage::fit after its estimator.  compute_variance,
\* compute_aic and compute_bic of ma.rs are private copies: the variance is
\* that of utils with theta in the place of the AR coefficients, the
\* criteria are those of ar.rs.
ma_diagnostics(m, n, order, theta, s2) ==
  [m EXCEPT !.theta = theta,
            !.sigma_squared = s2,
            !.aic = compute_aic(n, s2, order),
            !.bic = compute_bic(n, s2, order)]

\* MovingAverage::fit once its estimator has ended as e (e.phi holds theta)
ma_after(m, x, order, e) ==
  IF ~e.ok THEN Done(FALSE, m, e.numeric, e.note, <<>>, <<order>>)
  ELSE Done(TRUE,
            ma_diagnostics(m, Len(x), order, e.phi, compute_variance(x, e.phi)),
            TRUE, e.note, <<>>, <<order>>)

\* MovingAverage::fit
ma_fit(m, x, order, method, chk) ==
  ma_after(m, x, order, ma_estimate(m, x, order, method, chk))

\* the candidate loop of autofit_aic / autofit_bic: for order in 1..(max_order + 1)
RECURSIVE ma_autofit_loop(_, _, _, _, _, _, _, _)
RECURSIVE ma_autofit_next(_, _, _, _, _, _, _, _)
ma_autofit_loop(m, x, order, max_order, criterion, crit, fits, chk) ==
  IF order > max_order THEN Done(TRUE, m, Len(fits) > 0, "kept", crit, fits)
  ELSE ma_autofit_next(x, order, max_order, criterion, crit, fits, chk,
                       ma_fit(m, x, order, "DURBIN", chk))

\* the rest of the loop after the fit f at order: a panic of the fit ends
\* the search; otherwise push the criterion and go on
ma_autofit_next(x, order, max_order, criterion, crit, fits, chk, f) ==
  IF ~f.ok THEN Done(FALSE, f.m, TRUE, f.note, crit, Append(fits, order))
  ELSE ma_autofit_loop(f.m, x, order + 1, max_order, criterion,
                       Append(crit, criterion_of(f.m, criterion)), Append(fits, order), chk)

\* self.fit(data, min_order, DURBIN) after the loop l
ma_refit_at(x, chk, l, min_order) ==
  refit(l, ma_fit(l.m, x, min_order, "DURBIN", chk), min_order)

\* the selection after the loop l: index + 1, or unwrap_or(0)
ma_autofit_select(x, chk, l) ==
  IF ~l.ok THEN l
  ELSE ma_refit_at(x, chk, l, IF l.crit = <<>> THEN 0 ELSE min_index(l.crit) + 1)

\* MovingAverage::autofit
ma_autofit(m, x, max_order, criterion, chk) ==
  ma_autofit_select(x, chk, ma_autofit_loop(m, x, 1, max_order, criterion, <<>>, <<>>, chk))

-----------------------------------------------------------------------------
(* Specification of the differencing transforms: a caller holds a series   *)
(* and calls diff, inverse_diff or the round trip on it.                   *)

DiffVals == {F(-1), F(0), F(2)}

RECURSIVE SeqsUpTo(_, _)
SeqsUpTo(S, n) ==
  IF n = 0 THEN {<<>>}
  ELSE LET shorter == SeqsUpTo(S, n - 1)
       IN  shorter \cup {Append(s, v) : s \in {t \in shorter : Len(t) = n - 1}, v \in S}

InitDiff ==
  /\ data \in SeqsUpTo(DiffVals, MaxLen)
  /\ checked = TRUE
  /\ lbfgs_step = <<>>
  /\ lbfgs_err = FALSE
  /\ model = AutoRegressive_new
  /\ calls = 0
  /\ last = NoCall

CallDiff(d) ==
  /\ last' = [op |-> "diff", d |-> d, arg |-> data, ret |-> diff(data, d)]
  /\ UNCHANGED <<data, checked, lbfgs_step, lbfgs_err, model, calls>>

CallInverseDiff(d) ==
  /\ last' = [op |-> "inverse_diff", d |-> d, arg |-> data, ret |-> Ok(inverse_diff(data, d))]
  /\ UNCHANGED <<data, checked, lbfgs_step, lbfgs_err, model, calls>>

CallRoundTrip(d) ==
  /\ last' = [op |-> "round_trip", d |-> d, arg |-> data, ret |-> round_trip(data, d)]
  /\ UNCHANGED <<data, checked, lbfgs_step, lbfgs_err, model, calls>>

NextDiff ==
  \/ \E d \in 0..MaxD : CallDiff(d)
  \/ \E d \in 0..MaxD : CallInverseDiff(d)
  \/ \E d \in 0..MaxD : CallRoundTrip(d)

SpecDiff == InitDiff /\ [][NextDiff]_vars

-----------------------------------------------------------------------------
(* Specification of integration followed by differencing: a caller holds a *)
(* non-empty series, whose values may be infinite, and calls               *)
(* diff(&inverse_diff(x, d), d) on it.                                     *)

IntegrateVals == {F(-1), F(2), PInf}

InitIntegrate ==
  /\ data \in SeqsUpTo(IntegrateVals, MaxLen) \ {<<>>}
  /\ checked = TRUE
  /\ lbfgs_step = <<>>
  /\ lbfgs_err = FALSE
  /\ model = AutoRegressive_new
  /\ calls = 0
  /\ last = NoCall

\* the record of a call: the reconstruction and what diff made of it
Integrated(d, r) ==
  [op |-> "diff_of_inverse", d |-> d, arg |-> data, inv |-> r.inv, ret |-> r.ret]

CallDiffOfInverse(d) ==
  /\ last' = Integrated(d, diff_of_inverse(inverse_diff(data, d), d))
  /\ UNCHANGED <<data, checked, lbfgs_step, lbfgs_err, model, calls>>

NextIntegrate == \E d \in 0..MaxD : CallDiffOfInverse(d)

SpecIntegrate == InitIntegrate /\ [][NextIntegrate]_vars

-----------------------------------------------------------------------------
(* Specification of the AutoRegressive facade: one object, one series,     *)
(* any sequence of fit and autofit calls until one panics.                 *)

\* the orders passed to fit and autofit
MaxOrder == 2
\* the longest series fitted
MaxFitLen == 3
\* the most calls made on one object
MaxCalls == 2
\* the orders passed to the ARMA facade and to ARIMA's fit, and the largest
\* max_ma_order passed to ARIMA's autofit
MaxPairOrder == 1
\* the largest differencing order passed to the ARIMA facade
MaxDiff == 1

FitVals == {F(0), F(1), F(2)}

Criteria == {"AIC", "BIC"}

\* the minimiser's move, the same in every dimension or none at all
LbfgsSteps == {[k \in Range(2 * MaxOrder + 1) |-> s] : s \in {0, 1}}

\* the record of the last call: its arguments and what it did
Call(op, method, p, d, q, r) ==
  [op |-> op, method |-> method, p |-> p, d |-> d, q |-> q,
   ok |-> r.ok, numeric |-> r.numeric, note |-> r.note, crit |-> r.crit, fits |-> r.fits]

\* the object a call leaves and the record of the call
Serve(op, method, p, d, q, r) ==
  /\ model' = r.m
  /\ last' = Call(op, method, p, d, q, r)

\* a panic ends the program; a behaviour makes at most MaxCalls calls
Running == last.ok /\ calls < MaxCalls

InitAR ==
  /\ data \in SeqsUpTo(FitVals, MaxFitLen)
  /\ checked \in BOOLEAN
  /\ lbfgs_step \in LbfgsSteps
  /\ lbfgs_err \in BOOLEAN
  /\ model = AutoRegressive_new
  /\ calls = 0
  /\ last = NoCall

ARFit(order, method) ==
  /\ Running
  /\ Serve("fit", method, order, 0, 0,
           ar_fit(model, data, order, method, checked))
  /\ calls' = calls + 1
  /\ UNCHANGED <<data, checked, lbfgs_step, lbfgs_err>>

ARAutofit(max_order, criterion) ==
  /\ Running
  /\ Serve("autofit", criterion, max_order, 0, 0,
           ar_autofit(model, data, max_order, criterion, checked))
  /\ calls' = calls + 1
  /\ UNCHANGED <<data, checked, lbfgs_step, lbfgs_err>>

NextAR ==
  \/ \E order \in 0..MaxOrder, method \in ARMethods : ARFit(order, method)
  \/ \E max_order \in 0..MaxOrder, criterion \in Criteria : ARAutofit(max_order, criterion)

SpecAR == InitAR /\ [][NextAR]_vars

-----------------------------------------------------------------------------
(* Specification of the ARMA facade: one object, one series, any sequence  *)
(* of fit and autofit calls until one panics.                              *)

InitARMA ==
  /\ data \in SeqsUpTo(FitVals, MaxFitLen)
  /\ checked \in BOOLEAN
  /\ lbfgs_step \in LbfgsSteps
  /\ lbfgs_err \in BOOLEAN
  /\ model = ARMA_new
  /\ calls = 0
  /\ last = NoCall

ARMAFit(ar_order, ma_order, method) ==
  /\ Running
  /\ Serve("fit", method, ar_order, 0, ma_order,
           arma_fit(model, data, ar_order, ma_order, method, checked))
  /\ calls' = calls + 1
  /\ UNCHANGED <<data, checked, lbfgs_step, lbfgs_err>>

ARMAAutofit(max_ar_order, max_ma_order, criterion) ==
  /\ Running
  /\ Serve("autofit", criterion, max_ar_order, 0, max_ma_order,
           arma_autofit(model, data, max_ar_order, max_ma_order, criterion, checked))
  /\ calls' = calls + 1
  /\ UNCHANGED <<data, checked, lbfgs_step, lbfgs_err>>

NextARMA ==
  \/ \E ar_order \in 0..MaxPairOrder, ma_order \in 0..MaxPairOrder, method \in ARMAMethods :
       ARMAFit(ar_order, ma_order, method)
  \/ \E max_ar_order \in 0..MaxPairOrder, max_ma_order \in 0..MaxPairOrder,
        criterion \in Criteria :
       ARMAAutofit(max_ar_order, max_ma_order, criterion)

SpecARMA == InitARMA /\ [][NextARMA]_vars

-----------------------------------------------------------------------------
(* Specification of the ARIMA facade: one object, one series, any sequence *)
(* of fit and autofit calls until one panics.                              *)

\* the values of the series given to the ARIMA facade
ArimaVals == {F(0), F(1)}

\* Every path of this facade that can overflow (diff with d > N, pacf of an
\* empty series at a lag >= 1) panics with and without overflow checks, so
\* one build stands for both.
InitARIMA ==
  /\ data \in SeqsUpTo(ArimaVals, MaxFitLen)
  /\ checked = TRUE
  /\ lbfgs_step \in LbfgsSteps
  /\ lbfgs_err \in BOOLEAN
  /\ model = ARIMA_new
  /\ calls = 0
  /\ last = NoCall

ARIMAFit(p, d, q, method) ==
  /\ Running
  /\ Serve("fit", method, p, d, q,
           arima_fit(model, data, p, d, q, method, checked))
  /\ calls' = calls + 1
  /\ UNCHANGED <<data, checked, lbfgs_step, lbfgs_err>>

ARIMAAutofit(d, max_ar_order, max_ma_order, criterion) ==
  /\ Running
  /\ Serve("autofit", criterion, max_ar_order, d, max_ma_order,
           arima_autofit(model, data, d, max_ar_order, max_ma_order, criterion, checked))
  /\ calls' = calls + 1
  /\ UNCHANGED <<data, checked, lbfgs_step, lbfgs_err>>

NextARIMA ==
  \/ \E p \in 0..MaxPairOrder, d \in 0..MaxDiff, q \in 0..MaxPairOrder,
        method \in ARIMAMethods :
       ARIMAFit(p, d, q, method)
  \/ \E d \in 0..MaxDiff, max_ar_order \in 0..MaxOrder, max_ma_order \in 0..MaxPairOrder,
        criterion \in Criteria :
       ARIMAAutofit(d, max_ar_order, max_ma_order, criterion)

SpecARIMA == InitARIMA /\ [][NextARIMA]_vars

-----------------------------------------------------------------------------
(* Specification of the MovingAverage facade: one object, one series,      *)
(* one call of fit or autofit.                                             *)

\* the longest series fitted by the MovingAverage facade
MaxMALen == 7
\* the orders passed to the MovingAverage facade
MaxMAOrder == 2

MAVals == {F(0), F(1)}

InitMA ==
  /\ data \in SeqsUpTo(MAVals, MaxMALen)
  /\ checked \in BOOLEAN
  /\ lbfgs_step \in LbfgsSteps
  /\ lbfgs_err = FALSE
  /\ model = MovingAverage_new
  /\ calls = 0
  /\ last = NoCall

MAFit(order, method) ==
  /\ calls = 0
  /\ Serve("fit", method, 0, 0, order,
           ma_fit(model, data, order, method, checked))
  /\ calls' = calls + 1
  /\ UNCHANGED <<data, checked, lbfgs_step, lbfgs_err>>

MAAutofit(max_order, criterion) ==
  /\ calls = 0
  /\ Serve("autofit", criterion, 0, 0, max_order,
           ma_autofit(model, data, max_order, criterion, checked))
  /\ calls' = calls + 1
  /\ UNCHANGED <<data, checked, lbfgs_step, lbfgs_err>>

NextMA ==
  \/ \E order \in 0..MaxMAOrder, method \in MAMethods : MAFit(order, method)
  \/ \E max_order \in 0..MaxMAOrder, criterion \in Criteria : MAAutofit(max_order, criterion)

SpecMA == InitMA /\ [][NextMA]_vars

-----------------------------------------------------------------------------
(* Specification of the autocorrelation engine and the residual computer: *)
(* a caller holds a series and calls acf, pacf or residuals on it, once.   *)

\* the largest max_lag passed (beyond the longest series, so that it is clamped)
MaxLag == 3
\* the longest coefficient vector passed to residuals
MaxCoef == 2

StatVals == {F(0), F(1), F(2)}

\* the coefficients and intercepts passed to residuals
CoefVals == {F(-1), F(1)}

InitStats ==
  /\ data \in SeqsUpTo(StatVals, MaxLen)
  /\ checked \in BOOLEAN
  /\ lbfgs_step = <<>>
  /\ lbfgs_err = FALSE
  /\ model = AutoRegressive_new
  /\ calls = 0
  /\ last = NoCall

\* acf(&data, max_lag, covariance); max_lag = -1 stands for None
CallAcf(max_lag, covariance) ==
  /\ calls = 0
  /\ last' = [op |-> "acf", lag |-> max_lag, covariance |-> covariance, arg |-> data,
              ret |-> acf(data, max_lag, covariance, checked)]
  /\ calls' = calls + 1
  /\ UNCHANGED <<data, checked, lbfgs_step, lbfgs_err, model>>

\* pacf(&data, Some(max_lag))
CallPacf(max_lag) ==
  /\ calls = 0
  /\ last' = [op |-> "pacf", lag |-> max_lag, arg |-> data,
              ret |-> pacf(data, max_lag, checked)]
  /\ calls' = calls + 1
  /\ UNCHANGED <<data, checked, lbfgs_step, lbfgs_err, model>>

\* residuals(&data, intercept, &phi, &theta)
CallResiduals(intercept, phi, theta) ==
  /\ calls = 0
  /\ last' = [op |-> "residuals", intercept |-> intercept, phi |-> phi, theta |-> theta,
              arg |-> data, ret |-> Ok(residuals(data, intercept, phi, theta))]
  /\ calls' = calls + 1
  /\ UNCHANGED <<data, checked, lbfgs_step, lbfgs_err, model>>

NextStats ==
  \/ \E max_lag \in -1..MaxLag, covariance \in BOOLEAN : CallAcf(max_lag, covariance)
  \/ \E max_lag \in 0..MaxLag : CallPacf(max_lag)
  \/ \E intercept \in CoefVals, phi \in SeqsUpTo(CoefVals, MaxCoef),
        theta \in SeqsUpTo(CoefVals, MaxCoef) :
       CallResiduals(intercept, phi, theta)

SpecStats == InitStats /\ [][NextStats]_vars

-----------------------------------------------------------------------------
(* Specification of the partial autocorrelation on longer series: a caller *)
(* holds a series and calls pacf on it, once.                              *)

\* the longest series passed to pacf
MaxPacfLen == 4
\* the largest max_lag passed to pacf
MaxPacfLag == 4

PacfVals == {F(0), F(1)}

InitPacf ==
  /\ data \in SeqsUpTo(PacfVals, MaxPacfLen)
  /\ checked \in BOOLEAN
  /\ lbfgs_step = <<>>
  /\ lbfgs_err = FALSE
  /\ model = AutoRegressive_new
  /\ calls = 0
  /\ last = NoCall

NextPacf == \E max_lag \in 0..MaxPacfLag : CallPacf(max_lag)

SpecPacf == InitPacf /\ [][NextPacf]_vars

-----------------------------------------------------------------------------
(* Specification of the Burg estimator on longer series: one object, one   *)
(* series, any sequence of fit calls with method BURG until one panics.    *)

\* the longest series fitted by the Burg estimator
MaxBurgLen == 4
\* the largest order passed to the Burg estimator
MaxBurgOrder == 3

\* the most non-zero entries of a series fitted by the Burg estimator: the
\* exact fractions of the recursion on denser series exceed 32-bit integers
MaxPulses == 2

BurgVals == {F(0), F(1)}

\* the series of at most MaxPulses unit pulses
PulseSeries ==
  {s \in SeqsUpTo(BurgVals, MaxBurgLen) :
     Cardinality({i \in 1..Len(s) : s[i] # Zero}) <= MaxPulses}

InitBurg ==
  /\ data \in PulseSeries
  /\ checked \in BOOLEAN
  /\ lbfgs_step \in LbfgsSteps
  /\ lbfgs_err = FALSE
  /\ model = AutoRegressive_new
  /\ calls = 0
  /\ last = NoCall

NextBurg == \E order \in 0..MaxBurgOrder : ARFit(order, "BURG")

SpecBurg == InitBurg /\ [][NextBurg]_vars

-----------------------------------------------------------------------------
(* Specification of the Yule-Walker estimator on longer series: one        *)
(* object, one series, any sequence of fit calls with method YWALKER.      *)

\* the longest series fitted by the Yule-Walker estimator
MaxYWLen == 4
\* the largest order passed to the Yule-Walker estimator
MaxYWOrder == 2

InitYW ==
  /\ data \in SeqsUpTo(FitVals, MaxYWLen)
  /\ checked \in BOOLEAN
  /\ lbfgs_step \in LbfgsSteps
  /\ lbfgs_err = FALSE
  /\ model = AutoRegressive_new
  /\ calls = 0
  /\ last = NoCall

NextYW == \E order \in 0..MaxYWOrder : ARFit(order, "YWALKER")

SpecYW == InitYW /\ [][NextYW]_vars

-----------------------------------------------------------------------------
(* Specification of simulate: a caller holds a stream of samples to come  *)
(* and calls simulate of one of the facades, once.                         *)

\* the largest length asked of simulate
MaxSimLen == 2
\* the longest parameter vector passed to simulate
MaxSimOrder == 1
\* the largest differencing order passed (beyond MaxSimLen, so that diff > length happens)
MaxSimDiff == 3

NoiseVals == {F(0), F(1)}

\* the streams of samples, long enough for every call
NoiseStreams ==
  {s \in SeqsUpTo(NoiseVals, MaxSimLen + 2 * MaxSimOrder) :
     Len(s) = MaxSimLen + 2 * MaxSimOrder}

\* the parameter vectors passed to simulate
SimParams == SeqsUpTo(CoefVals, MaxSimOrder)

\* the record of a call of simulate: its arguments, the samples drawn, its result
Simulated(family, length, ar_order, d, ma_order, ret) ==
  [op |-> "simulate", family |-> family, length |-> length, ar_order |-> ar_order,
   d |-> d, ma_order |-> ma_order, drawn |-> ar_order + ma_order + length, ret |-> ret]

InitSim ==
  /\ data \in NoiseStreams
  /\ checked = TRUE
  /\ lbfgs_step = <<>>
  /\ lbfgs_err = FALSE
  /\ model \in {AutoRegressive_new, MovingAverage_new, ARMA_new, ARIMA_new}
  /\ calls = 0
  /\ last = NoCall

ARSimulate(length, param) ==
  /\ calls = 0
  /\ model.kind = "AR"
  /\ last' = Simulated("AR", length, Len(param), 0, 0, Ok(ar_simulate(length, param, data)))
  /\ calls' = calls + 1
  /\ UNCHANGED <<data, checked, lbfgs_step, lbfgs_err, model>>

MASimulate(length, param) ==
  /\ calls = 0
  /\ model.kind = "MA"
  /\ last' = Simulated("MA", length, 0, 0, Len(param), Ok(ma_simulate(length, param, data)))
  /\ calls' = calls + 1
  /\ UNCHANGED <<data, checked, lbfgs_step, lbfgs_err, model>>

ARMASimulate(length, ar_param, ma_param) ==
  /\ calls = 0
  /\ model.kind = "ARMA"
  /\ last' = Simulated("ARMA", length, Len(ar_param), 0, Len(ma_param),
                       Ok(arma_simulate(length, ar_param, ma_param, data)))
  /\ calls' = calls + 1
  /\ UNCHANGED <<data, checked, lbfgs_step, lbfgs_err, model>>

ARIMASimulate(length, phi, d, theta) ==
  /\ calls = 0
  /\ model.kind = "ARIMA"
  /\ last' = Simulated("ARIMA", length, Len(phi), d, Len(theta),
                       arima_simulate(length, phi, d, theta, data))
  /\ calls' = calls + 1
  /\ UNCHANGED <<data, checked, lbfgs_step, lbfgs_err, model>>

NextSim ==
  \/ \E length \in 0..MaxSimLen, param \in SimParams : ARSimulate(length, param)
  \/ \E length \in 0..MaxSimLen, param \in SimParams : MASimulate(length, param)
  \/ \E length \in 0..MaxSimLen, ar_param \in SimParams, ma_param \in SimParams :
       ARMASimulate(length, ar_param, ma_param)
  \/ \E length \in 0..MaxSimLen, phi \in SimParams, d \in 0..MaxSimDiff, theta \in SimParams :
       ARIMASimulate(length, phi, d, theta)

SpecSim == InitSim /\ [][NextSim]_vars

-----------------------------------------------------------------------------
(* Claims about the differencing transforms *)

\* first-order backward differencing, y_i = x_i - x_{i-1}, the first element dropped
Diff1(x) == Vec([i \in Range(Len(x) - 1) |-> FSub(x[i + 1], x[i])])

RECURSIVE DiffTimes(_, _)
DiffTimes(x, d) == IF d = 0 THEN x ELSE DiffTimes(Diff1(x), d - 1)

\* C9: for 0 <= d <= N, diff(x, d) returns a sequence of length N - d equal to
\* first-order backward differencing applied d times, and x is not modified.
C9_DiffIsIteratedDifference ==
  (last.op = "diff" /\ last.d <= Len(last.arg)) =>
    /\ last.ret.ok
    /\ Len(last.ret.v) = Len(last.arg) - last.d
    /\ last.ret.v = DiffTimes(last.arg, last.d)
    /\ data = last.arg

C9_Witness ==
  /\ last.op = "diff"
  /\ last.d = 2
  /\ Len(last.arg) = 3
  /\ last.ret.ok
  /\ last.ret.v # <<Zero>>

-----------------------------------------------------------------------------
(* Claims about the AutoRegressive facade *)

\* the criterion value of a Yule-Walker fit of order k on a fresh object
fresh_criterion(k, criterion) ==
  LET f == ar_fit(AutoRegressive_new, data, k, "YWALKER", checked)
  IN  IF criterion = "AIC" THEN f.m.aic ELSE f.m.bic

\* the order an independent scan selects: each order 1..max_order fitted on a
\* fresh object, the first minimum taken
independent_scan(max_order, criterion) ==
  min_index([k \in 1..max_order |-> fresh_criterion(k, criterion)]) + 1

\* C2: after AutoRegressive.autofit with max_order >= 1 the model is the result
\* of a fit at the order k in 1..max_order whose recorded criterion value is
\* minimal (the lowest such k on ties), and k is the arg-min of an independent
\* scan that fits each order on a fresh model and recomputes the criterion.
C2_AutofitSelectsScanMinimum ==
  (last.op = "autofit" /\ last.p >= 1 /\ last.ok) =>
    LET k == last.fits[Len(last.fits)]
    IN  /\ k \in 1..last.p
        /\ Len(last.crit) = last.p
        /\ \A j \in 1..last.p : partial_cmp(last.crit[j], last.crit[k]) # "Less"
        /\ \A j \in 1..(k - 1) : partial_cmp(last.crit[j], last.crit[k]) # "Equal"
        /\ k = independent_scan(last.p, last.method)

\* C6: when the QR solve of the Yule-Walker estimator returns no solution,
\* AutoRegressive.fit with method YWALKER does not return normally with phi
\* left at its previous value.
C6_SolveFailureIsReported ==
  (last.op = "fit" /\ last.method = "YWALKER" /\ last.note = "solve_none") => ~last.ok

\* C7: AutoRegressive.fit by OLS, Yule-Walker or Burg with order >= N, or on an
\* empty series, fails before any numeric work and writes no model field.
C7_FitFailsFast ==
  (/\ last.op = "fit"
   /\ last.method \in {"OLS", "YWALKER", "BURG"}
   /\ (last.p >= Len(data) \/ Len(data) = 0)) =>
    /\ ~last.ok
    /\ ~last.numeric
    /\ last.note # "assigned"

-----------------------------------------------------------------------------
(* Claims about the ARMA and ARIMA facades *)

\* the orders of the last fit a call made
final_pair == last.fits[Len(last.fits)]

\* the pair at flat index i (from 0) of a grid enumerated with ar_order in
\* 0..=max_ar_order outside and ma_order in 0..=max_ma_order inside
pair_at(i, max_ma_order) == <<i \div (max_ma_order + 1), i % (max_ma_order + 1)>>

\* a grid over 0..=p and 0..=q was enumerated in full, ar_order outside
grid_enumerated(p, q) ==
  /\ Len(last.crit) = (p + 1) * (q + 1)
  /\ Len(last.fits) >= Len(last.crit)
  /\ \A j \in 1..Len(last.crit) : last.fits[j] = pair_at(j - 1, q)

\* the final fit was made at the pair that produced the first minimal
\* criterion value, and the coefficient vectors have that pair's lengths
refit_at_minimum ==
  /\ last.ok
  /\ Len(last.fits) = Len(last.crit) + 1
  /\ \E i \in 1..Len(last.crit) :
       /\ last.fits[i] = final_pair
       /\ \A j \in 1..Len(last.crit) : partial_cmp(last.crit[j], last.crit[i]) # "Less"
       /\ \A j \in 1..(i - 1) : partial_cmp(last.crit[j], last.crit[i]) # "Equal"
  /\ Len(model.phi) = final_pair[1]
  /\ Len(model.theta) = final_pair[2]

\* C1: after any fit that returns normally, len(phi) = ar_order and
\* len(theta) = ma_order.
C1_FitSetsLengths ==
  (last.op = "fit" /\ last.ok) =>
    (Len(model.phi) = last.p /\ Len(model.theta) = last.q)

\* C3: ARMA.autofit with AIC, for every max_ar_order >= 0 and max_ma_order >= 0,
\* enumerates the grid with ar_order outside and ma_order inside, decodes the
\* flat index of the minimal AIC to the pair that produced it and makes the
\* final fit at that pair.
C3_ArmaAicDecode ==
  (/\ last.op = "autofit"
   /\ last.method = "AIC"
   /\ model.kind = "ARMA"
   /\ Len(last.crit) = (last.p + 1) * (last.q + 1)) =>
    (grid_enumerated(last.p, last.q) /\ refit_at_minimum)

\* C4: ARIMA.autofit with AIC, for every max_ar_order >= 0 and
\* max_ma_order >= 0, decodes the flat index i of the minimal AIC of the grid
\* (ar_order outside, ma_order inside) as (i / (max_ma_order + 1),
\* i % (max_ma_order + 1)), the pair that produced that AIC, and makes the
\* final fit at that pair.
C4_ArimaAicDecode ==
  (/\ last.op = "autofit"
   /\ last.method = "AIC"
   /\ model.kind = "ARIMA"
   /\ Len(last.crit) = (last.p + 1) * (last.q + 1)) =>
    (grid_enumerated(last.p, last.q) /\ refit_at_minimum)

\* a grid of two rows more than columns whose minimum is in the last row
C4_Witness ==
  /\ last.op = "autofit"
  /\ last.method = "AIC"
  /\ model.kind = "ARIMA"
  /\ last.ok
  /\ last.p = 2
  /\ last.q = 1
  /\ Len(last.crit) = 6
  /\ final_pair = <<2, 0>>
  /\ Len(model.phi) = 2

\* the pairs fitted while the criterion was recorded are those of the grid
\* from lo up to (p, q), each once
fitted_once_from(lo, p, q) ==
  /\ Len(last.crit) = (p - lo + 1) * (q - lo + 1)
  /\ {last.fits[j] : j \in 1..Len(last.crit)} = (lo..p) \X (lo..q)

\* C5: ARMA.autofit and ARIMA.autofit with BIC fit every order pair from the
\* minimum valid order up to (max_ar_order, max_ma_order) exactly once, then
\* re-fit once at the pair whose recorded BIC is minimal, so that the final
\* phi and theta have the lengths of that pair.
C5_BicGridThenRefit ==
  (/\ last.op = "autofit"
   /\ last.method = "BIC"
   /\ last.ok
   /\ last.p >= 1
   /\ last.q >= 1) =>
    /\ fitted_once_from(0, last.p, last.q) \/ fitted_once_from(1, last.p, last.q)
    /\ refit_at_minimum

\* C8: a fit leaves the object as the same fit leaves a new object: nothing
\* of an earlier call is carried over into phi, theta, sigma_squared, aic, bic.
C8_FitForgetsEarlierCalls ==
  (last.op = "fit" /\ last.ok /\ model.kind = "ARMA") =>
    model = arma_fit(ARMA_new, data, last.p, last.q, last.method, checked).m

-----------------------------------------------------------------------------
(* Claims about the autocorrelation engine *)

\* the lag-0 covariance of a series: the mean of its squared deviations
lag0_covariance(x) ==
  FDiv(FSum([i \in 1..Len(x) |-> Square(FSub(x[i], mean(x)))]), F(Len(x)))

\* the number of values acf returns for a series of length n
acf_length(n, max_lag) == IF max_lag < 0 THEN n ELSE Min(max_lag, n - 1) + 1

\* C11: for every series of length N >= 1 and every max_lag, acf in correlation
\* mode returns min(k, N-1) + 1 values (N for None) with 1.0 at index 0; in
\* covariance mode the length is the same and index 0 is the lag-0 covariance.
C11_AcfLengthAndHead ==
  (last.op = "acf" /\ Len(last.arg) >= 1) =>
    /\ last.ret.ok
    /\ Len(last.ret.v) = acf_length(Len(last.arg), last.lag)
    /\ last.ret.v[1] = IF last.covariance THEN lag0_covariance(last.arg) ELSE One

\* a constant series in correlation mode, and a clamped lag in covariance mode
C11_Witness ==
  /\ last.op = "acf"
  /\ last.arg = <<F(2), F(2), F(2)>>
  /\ last.lag = MaxLag
  /\ ~last.covariance
  /\ last.ret.ok
  /\ Len(last.ret.v) = 3
  /\ last.ret.v[1] = One

\* C12: for a constant series of length N >= 2 and max_lag >= 1, acf in
\* correlation mode returns zero at every lag >= 1 or fails; it never returns
\* the quotient of a zero covariance by the zero lag-0 covariance.
C12_ConstantSeriesDefined ==
  (/\ last.op = "acf"
   /\ ~last.covariance
   /\ last.lag >= 1
   /\ Len(last.arg) >= 2
   /\ \A i \in 1..Len(last.arg) : last.arg[i] = last.arg[1]) =>
    (~last.ret.ok \/ \A k \in 2..Len(last.ret.v) : last.ret.v[k] = Zero)

\* the == of f64: a NaN is equal to nothing, itself included
f64_eq(a, b) == ~IsNaN(a) /\ ~IsNaN(b) /\ a = b

\* C13: for every series of length N >= 2 and max_lag >= 1, the first value
\* pacf returns is exactly equal to acf(x, max_lag, false)[1], the lag-1
\* correlation.
C13_PacfHeadIsLag1Correlation ==
  (last.op = "pacf" /\ last.lag >= 1 /\ Len(last.arg) >= 2) =>
    /\ last.ret.ok
    /\ Len(last.ret.v) >= 1
    /\ f64_eq(last.ret.v[1], acf(last.arg, last.lag, FALSE, checked).v[2])

\* row k of the Levinson-Durbin table from row k - 1 (prev):
\* phi_kk = (rho_k - sum_j phi_{k-1,j} rho_{k-j}) / (1 - sum_j phi_{k-1,j} rho_j)
\* and phi_kj = phi_{k-1,j} - phi_kk * phi_{k-1,k-j} for j < k
levinson_row(rho, prev, k) ==
  LET num == FSub(rho[k + 1], FSum([j \in 1..(k - 1) |-> FMul(prev[j], rho[k - j + 1])]))
      den == FSub(One, FSum([j \in 1..(k - 1) |-> FMul(prev[j], rho[j + 1])]))
      phi_kk == FDiv(num, den)
  IN  [j \in 1..k |-> IF j = k THEN phi_kk ELSE FSub(prev[j], FMul(phi_kk, prev[k - j]))]

\* the diagonal coefficients phi_kk, .., phi_KK of one pass over the table
RECURSIVE levinson_diagonal(_, _, _, _)
levinson_diagonal(rho, prev, k, K) ==
  IF k > K THEN <<>>
  ELSE LET row == levinson_row(rho, prev, k)
       IN  <<row[k]>> \o levinson_diagonal(rho, row, k + 1, K)

\* C22: for every series x and max_lag, pacf returns min(max_lag, N - 1)
\* values, with no lag-0 entry, and its k-th value is the diagonal
\* coefficient phi_kk of step k of one single Levinson-Durbin pass over the
\* autocorrelations of x, run up to the largest order.
C22_PacfIsLevinsonDiagonal ==
  (last.op = "pacf" /\ Len(last.arg) >= 1) =>
    /\ last.ret.ok
    /\ Len(last.ret.v) = Min(last.lag, Len(last.arg) - 1)
    /\ last.ret.v = levinson_diagonal(acf_values(last.arg, -1, FALSE), <<>>, 1,
                                      Min(last.lag, Len(last.arg) - 1))

\* a pacf of three values, where the second step changed the lag-1
\* coefficient that the third step reads
C22_Witness ==
  /\ last.op = "pacf" /\ last.ret.ok /\ Len(last.ret.v) = 3
  /\ \A k \in 1..3 : IsFinite(last.ret.v[k]) /\ last.ret.v[k] # Zero

-----------------------------------------------------------------------------
(* Claims about the residual computer *)

\* the value the recursion prescribes at index t (from 0) of the residuals r
prescribed_residual(x, intercept, phi, theta, r, t) ==
  FSub(x[t + 1],
       FAdd(FAdd(intercept, FSum([j \in 1..Len(phi) |-> FMul(phi[j], x[t + 1 - j])])),
            FSum([j \in 1..Min(Len(theta), t) |-> FMul(theta[j], r[t + 1 - j])])))

\* C14: for len(phi) <= N, residuals returns N values, the first len(phi) zero,
\* and at each t in len(phi)..N-1 the value x[t] - (intercept + sum phi[j] *
\* x[t-j-1] + sum_{j < min(len(theta), t)} theta[j] * r[t-j-1]) over the
\* residuals already produced.
C14_ResidualsRecursion ==
  (last.op = "residuals" /\ Len(last.phi) <= Len(last.arg)) =>
    /\ last.ret.ok
    /\ Len(last.ret.v) = Len(last.arg)
    /\ \A i \in 1..Len(last.phi) : last.ret.v[i] = Zero
    /\ \A t \in Len(last.phi)..(Len(last.arg) - 1) :
         last.ret.v[t + 1] = prescribed_residual(last.arg, last.intercept, last.phi,
                                                 last.theta, last.ret.v, t)

\* one lag of history, two moving-average terms, both used at the last index
C14_Witness ==
  /\ last.op = "residuals"
  /\ Len(last.arg) = 3
  /\ Len(last.phi) = 1
  /\ Len(last.theta) = 2
  /\ last.ret.ok
  /\ last.ret.v[1] = Zero
  /\ last.ret.v[2] # Zero
  /\ last.ret.v[3] # last.ret.v[2]

-----------------------------------------------------------------------------
(* Claims about the conditional-sum-of-squares estimator *)

\* the series ARIMA::fit hands to its estimator
fitted_series == IF last.d > 0 THEN diff(data, last.d).v ELSE data

\* c is [sample mean, PACF at lags 1..p, 1.0 repeated q times]
is_start_vector(c, x, p, q) ==
  /\ Len(c) = 1 + p + q
  /\ c[1] = mean(x)
  /\ p > 0 => SubSeq(c, 2, p + 1) = pacf(x, p, checked).v
  /\ \A i \in (p + 2)..(1 + p + q) : c[i] = One

minimised_vector ==
  lbfgs_minimize(css_initial(fitted_series, last.p, last.q, checked).v)

\* C16: when the quasi-Newton minimiser returns an error, fit_css still returns
\* normally and assigns phi = entries 1..=p and theta = entries p+1.. of the
\* minimiser's current parameter vector, as it does when the minimiser succeeds.
C16_NonConvergenceIsNotFatal ==
  (/\ last.op = "fit"
   /\ last.method = "CSS"
   /\ model.kind = "ARIMA"
   /\ lbfgs_err
   /\ last.d <= Len(data)
   /\ last.p < Len(fitted_series)) =>
    /\ last.ok
    /\ last.note = "assigned"
    /\ model.phi = SubSeq(minimised_vector, 2, last.p + 1)
    /\ model.theta = SubSeq(minimised_vector, last.p + 2, 1 + last.p + last.q)

\* the minimiser moved the start vector, returned Err, and the fit returned
C16_Witness ==
  /\ last.op = "fit"
  /\ last.method = "CSS"
  /\ model.kind = "ARIMA"
  /\ lbfgs_err
  /\ lbfgs_step[3] = 1
  /\ last.ok
  /\ last.p = 1
  /\ last.q = 1
  /\ Len(data) = 3
  /\ model.theta = <<F(2)>>

-----------------------------------------------------------------------------
(* Claims about simulate *)

\* C17: for every model family and every requested length L (L >= diff for
\* ARIMA), simulate draws L + ar_order + ma_order samples, discards the burn-in
\* of ar_order + ma_order samples and returns exactly L values.
C17_SimulateReturnsLength ==
  (last.op = "simulate" /\ last.d <= last.length) =>
    /\ last.ret.ok
    /\ last.drawn = last.length + last.ar_order + last.ma_order
    /\ Len(last.ret.v) = last.length

-----------------------------------------------------------------------------
(* Claims about the diagnostics of a fit *)

\* the mean of the squares of a vector
mean_square(r) == FDiv(FSum([i \in 1..Len(r) |-> Square(r[i])]), F(Len(r)))

\* the intercept a CSS fit of the ARMA facade estimated: entry 0 of the
\* minimiser's vector
fitted_intercept == css_coef(data, last.p, last.q, checked).v[1]

\* C18: after MovingAverage.fit, ARMA.fit or ARIMA.fit, sigma_squared is the
\* mean of the squared residuals the Residual Computer produces for the fitted
\* coefficients: residuals(series, intercept, phi, theta).
C18_VarianceFromResiduals ==
  (/\ last.op = "fit"
   /\ last.method = "CSS"
   /\ last.ok
   /\ model.kind = "ARMA"
   /\ Len(data) > last.p) =>
    model.sigma_squared =
      mean_square(residuals(data, fitted_intercept, model.phi, model.theta))

\* C19: in every reachable state of every facade, after new() and after calls
\* of fit and autofit that return normally on a series longer than the order,
\* sigma_squared is a defined number >= 0.
C19_VarianceIsDefined ==
  (calls <= 1 /\ last.ok /\ (calls = 1 => last.p < Len(data))) =>
    (IsFinite(model.sigma_squared) /\ model.sigma_squared[1] >= 0)

\* C20: after every fit on a series of length N, aic = 2k + N ln(v) and
\* bic = N ln(v) + k ln(N), k being the requested order and v sigma_squared
\* itself, not divided by N again inside the logarithm.
C20_CriteriaFromVariance ==
  (last.op = "fit" /\ last.ok) =>
    /\ model.aic = FAdd(F(2 * (last.p + last.q)),
                        FMul(F(Len(data)), Ln(model.sigma_squared)))
    /\ model.bic = FAdd(FMul(F(Len(data)), Ln(model.sigma_squared)),
                        FMul(F(last.p + last.q), Ln(F(Len(data)))))

-----------------------------------------------------------------------------
(* Claims about the MovingAverage facade *)

\* whether the Durbin fit of a candidate order ends normally on the series
durbin_fits(order) == fit_durbin(MovingAverage_new, data, order, checked).ok

\* whether the Durbin fit of a candidate order reaches its regression, which
\* has data.len() - m - order rows, and fails there on a singular matrix
durbin_singular(order) ==
  durbin_m(order, Len(data)) + order <= Len(data) /\ ~durbin_fits(order)

\* the criterion a candidate order contributes when failed candidates are
\* skipped: that of its fit, or +infinity when the fit fails
skipped_criterion(order, criterion) ==
  IF durbin_fits(order)
    THEN criterion_of(ma_fit(MovingAverage_new, data, order, "DURBIN", checked).m, criterion)
    ELSE PInf

\* C21: in MovingAverage.autofit a candidate order whose Durbin fit fails
\* does not abort the search: every candidate 1..max_order is still fitted
\* and, when some candidate succeeded, the call returns after a final fit at
\* the minimiser of the criteria with +infinity for the failed candidates.
C21_FailedCandidateIsSkipped ==
  (/\ last.op = "autofit" /\ model.kind = "MA"
   /\ \E c \in 1..last.q : durbin_singular(c)) =>
    /\ Len(last.fits) >= last.q
    /\ \A c \in 1..last.q : last.fits[c] = c
    /\ (\E c \in 1..last.q : durbin_fits(c)) =>
         /\ last.ok
         /\ last.fits = [c \in 1..(last.q + 1) |->
              IF c <= last.q THEN c
              ELSE min_index([k \in 1..last.q |-> skipped_criterion(k, last.method)]) + 1]

-----------------------------------------------------------------------------
(* Claims about the estimators of the AutoRegressive facade *)

\* one step of the Levinson-Durbin recursion on autocovariances that keeps
\* the previous-order array prev apart from the current-order array:
\* lambda = (r_i - sum_j prev_j r_{i-j}) / e, every lower coefficient taken
\* from prev only
two_array_step(r, prev, e, i) ==
  LET lambda == FDiv(FSub(r[i + 1],
                          FSum([j \in 1..(i - 1) |-> FMul(prev[j], r[i - j + 1])])), e)
  IN  [a |-> [j \in 1..i |-> IF j = i THEN lambda
                             ELSE FSub(prev[j], FMul(lambda, prev[i - j]))],
       e |-> FMul(FSub(One, FMul(lambda, lambda)), e)]

RECURSIVE two_array_loop(_, _, _, _, _)
two_array_loop(r, prev, e, i, order) ==
  IF i > order THEN prev
  ELSE LET s == two_array_step(r, prev, e, i)
       IN  two_array_loop(r, s.a, s.e, i + 1, order)

\* the autocovariances r_0..r_order that fit_burg computes from the series
burg_autocov(x, order) == [k \in 1..(order + 1) |-> burg_r(x, k - 1)]

\* C23: for every order, fit_burg returns the coefficients of the
\* Levinson-Durbin recursion that keeps separate previous-order and
\* current-order arrays, on the same autocovariances r_0..r_order: every
\* lower coefficient a_j is updated from the previous-order values only.
C23_BurgUpdatesFromPreviousOrder ==
  (last.op = "fit" /\ last.method = "BURG" /\ last.ok /\ model.kind = "AR") =>
    model.phi = two_array_loop(burg_autocov(data, last.p), <<>>,
                               burg_r(data, 0), 1, last.p)

\* the error of predicting x[t] (0-based t) with phi[j] on the value at lag j
lag_error(x, phi, t) ==
  FSub(x[t + 1], FSum([j \in 1..Len(phi) |-> FMul(phi[j], x[t + 1 - j])]))

\* the sum over t = p..N-1 of the value at lag l times the error at t: zero
\* for every lag l = 1..p exactly when phi[j] is the least-squares
\* coefficient of lag j in the regression of x[t] on x[t-1], .., x[t-p]
lag_moment(x, phi, l) ==
  FSum([k \in 1..(Len(x) - Len(phi)) |->
         FMul(x[Len(phi) + k - l], lag_error(x, phi, Len(phi) + k - 1))])

\* C24: in the Yule-Walker estimator with order p on a series of length
\* N > p, after the reversal phi[j] is the coefficient of lag j + 1 (index 0
\* of phi is lag 1): phi solves the regression of x[k+p] on x[k..k+p-1] with
\* its j-th entry on the value j + 1 steps back.
C24_YuleWalkerLagOrder ==
  (/\ last.op = "fit" /\ last.method = "YWALKER" /\ last.ok /\ last.note = "assigned"
   /\ model.kind = "AR" /\ last.p < Len(data)) =>
    /\ Len(model.phi) = last.p
    /\ \A l \in 1..last.p : lag_moment(data, model.phi, l) = Zero

\* a Yule-Walker fit of order 2 whose two coefficients differ
C24_Witness ==
  /\ last.op = "fit" /\ last.method = "YWALKER" /\ last.ok /\ last.note = "assigned"
  /\ last.p = 2 /\ Len(data) > 2 /\ Len(model.phi) = 2
  /\ IsFinite(model.phi[1]) /\ IsFinite(model.phi[2]) /\ model.phi[1] # model.phi[2]

\* whether fit_ols fails on the series at an order: too few observations,
\* or a normal-equations matrix that has no Cholesky factor
ols_fails(x, order) == Len(x) <= order \/ ~cholesky_ok(ols_xtx(x, order), order)

\* C25: when AutoRegressive.fit with method OLS fails (N <= order, or the
\* Cholesky factorisation fails), the failure reaches the caller of fit and
\* phi, sigma_squared, aic and bic keep the values they had before the call.
C25_OlsFailureKeepsModel ==
  [][(/\ calls' = calls + 1
      /\ last'.op = "fit" /\ last'.method = "OLS"
      /\ ols_fails(data, last'.p)) =>
       (/\ ~last'.ok
        /\ model'.phi = model.phi
        /\ model'.sigma_squared = model.sigma_squared
        /\ model'.aic = model.aic
        /\ model'.bic = model.bic)]_vars

\* a failed OLS fit on an object that an earlier fit had written
C25_Witness ==
  /\ calls = 2 /\ last.op = "fit" /\ last.method = "OLS" /\ ~last.ok
  /\ model.kind = "AR" /\ ols_fails(data, last.p) /\ Len(data) > last.p
  /\ Len(model.phi) >= 1 /\ \A j \in 1..Len(model.phi) : IsFinite(model.phi[j])
  /\ model.phi # <<Zero>>
  /\ model.sigma_squared # Zero /\ IsFinite(model.sigma_squared)

-----------------------------------------------------------------------------
(* Claims about the integration order of the ARIMA facade *)

\* C26: after any sequence of ARIMA.fit calls, the diff field equals the
\* integration order d passed to the most recent fit call, also when that
\* call has d = 0 and an earlier call had d > 0.
C26_DiffIsLastOrder ==
  (last.op = "fit" /\ last.ok /\ model.kind = "ARIMA") => model.diff = last.d

\* C27: in ARIMA.autofit(data, d, max_ar_order, max_ma_order, criterion) with
\* 0 <= d <= len(data) the argument d has no effect on the resulting model:
\* the object is left as the same call with d = 0 leaves it, its final fit is
\* a fit with integration order 0 on the undifferenced series, and the diff
\* field keeps its value from before the call.
C27_AutofitIgnoresD ==
  [][(/\ calls' = calls + 1
      /\ last'.op = "autofit" /\ model.kind = "ARIMA"
      /\ last'.d <= Len(data)) =>
       (/\ model'.diff = model.diff
        /\ model' = arima_autofit(model, data, 0, last'.p, last'.q, last'.method, checked).m
        /\ (last'.ok /\ Len(last'.fits) > 0) =>
             model' = arima_fit(model, data, last'.fits[Len(last'.fits)][1], 0,
                                last'.fits[Len(last'.fits)][2], "CSS", checked).m)]_vars

\* an autofit with d > 0 that returned after fitting candidates, on an
\* object whose diff field is not d
C27_Witness ==
  /\ last.op = "autofit" /\ model.kind = "ARIMA" /\ last.ok
  /\ last.d >= 1 /\ last.d <= Len(data)
  /\ Len(last.fits) >= 2
  /\ model.diff # last.d
  /\ IsFinite(model.sigma_squared)

-----------------------------------------------------------------------------
(* Claims about integration followed by differencing *)

\* inverse_diff(x, d) has length N + d and its first d entries are zero
padded_reconstruction ==
  /\ Len(last.inv) = Len(last.arg) + last.d
  /\ \A i \in 1..last.d : last.inv[i] = Zero

\* C28 as stated: for every series x of length N >= 1 and every d >= 0,
\* inverse_diff(x, d) has length N + d with its first d entries zero, and
\* diff(inverse_diff(x, d), d) equals x exactly, element for element.
C28_DiffOfInverseIsExact ==
  last.op = "diff_of_inverse" =>
    (padded_reconstruction /\ last.ret.ok /\ last.ret.v = last.arg)

\* C28 amended: the length and the leading zeros hold for every series; the
\* result of differencing the reconstruction has length N, and is x element
\* for element when every value of x is finite and every sum is exact.
C28_DiffOfInverseOnExactSums ==
  last.op = "diff_of_inverse" =>
    /\ padded_reconstruction
    /\ last.ret.ok
    /\ Len(last.ret.v) = Len(last.arg)
    /\ (\A i \in 1..Len(last.arg) : IsFinite(last.arg[i])) => last.ret.v = last.arg

C28_Witness ==
  /\ last.op = "diff_of_inverse"
  /\ last.d = 2
  /\ last.arg = <<F(2), F(-1), F(2)>>
  /\ last.inv = <<Zero, Zero, F(2), F(3), F(6)>>
  /\ last.ret.v = last.arg

====
